---------------------------- MODULE Spec2Model ----------------------------
(***************************************************************************)
(* Drishti AI backend: the request orchestration pipeline.                 *)
(*                                                                         *)
(*   - router.choose_model                    (services/llm/router.py)     *)
(*   - LocalLLMClient.chat, LlamaClient.chat, SarvamClient.chat            *)
(*   - MemoriWrapper.chat                     (services/memory)            *)
(*   - chunk_text, save_uploaded_file, get_relevant_chunks                 *)
(*   - the handlers chat_text and chat_audio  (api/routes_chat.py)         *)
(*   - the handler translate_text             (api/routes_translate.py)    *)
(*   - upload_file, and get_memori_wrapper    (api/routes_files.py,        *)
(*                                             services/memory)            *)
(*                                                                         *)
(* Text is a sequence of one-character strings, so that len(), lower(),    *)
(* `in`, split(), strip(), rfind() and slicing are computed as Python      *)
(* computes them.  Positions in the Python-named operators are 0-based     *)
(* like the source; Slice(s, a, b) is s[a:b].                              *)
(*                                                                         *)
(* The handlers are coroutines on one asyncio event loop: a handler runs   *)
(* without interruption from one `await` that suspends to the next, and a  *)
(* synchronous call (the Memori wrapper, the model clients, STT, TTS)      *)
(* keeps the loop until it returns.  One action of Spec is one such        *)
(* uninterrupted stretch of a handler.                                     *)
(***************************************************************************)
EXTENDS Integers, Sequences, FiniteSets, TLC

VARIABLES
    memori_wrapper,   \* routes_chat._memori_wrapper: "None" or "set"
    loop,             \* the requests whose synchronous call holds the event loop: none or one
    pc,               \* pc[r]: where handler r is suspended
    request,          \* request[r]: the handler, the user and the session id of request r
    local,            \* local[r]: the handler's local variables, the utterance among them
    fault,            \* fault[r]: the collaborator call that raised in turn r (history variable)
    response,         \* response[r]: what the client got
    sessions,         \* Mongo collection "sessions"
    messages,         \* Mongo collection "messages"
    memori_messages,  \* Memori database, collection "messages"
    documents,        \* Mongo collection "documents"
    chunks_col,       \* Mongo collection "chunks"
    faults,           \* how many collaborator calls have failed so far
    rt_text,          \* router harness: the text under test
    rt_lang,          \* router harness: the language code under test
    rt_calls,         \* router harness: the calls made so far, with their results
    rv_store,         \* retrieval on its own: the "chunks" collection the uploads built
    rv_call,          \* retrieval on its own: the last call of get_relevant_chunks
    ck_text,          \* chunk_text on its own: the argument text
    ck_chunk_size,    \* chunk_text on its own: the argument chunk_size
    ck_overlap,       \* chunk_text on its own: the argument overlap
    ck_start,         \* chunk_text: the local variable start
    ck_chunks,        \* chunk_text: the local variable chunks
    ck_windows,       \* chunk_text: the slices text[start:end] taken so far (history variable)
    ck_pc,            \* chunk_text: "idle" (not called), "loop" or "returned"
    tr_calls,         \* translate on its own: the calls made so far
    mw_instance,      \* memory.memori_client._memori_wrapper: NoWrapper or the instance
    mw_call           \* the last call of get_memori_wrapper, and how many were made

vars == <<memori_wrapper, loop, pc, request, local, fault, response, sessions,
          messages, memori_messages, documents, chunks_col, faults,
          rt_text, rt_lang, rt_calls, rv_store, rv_call,
          ck_text, ck_chunk_size, ck_overlap, ck_start, ck_chunks, ck_windows, ck_pc,
          tr_calls, mw_instance, mw_call>>

pipelineVars == <<memori_wrapper, loop, pc, request, local, fault, response, sessions,
                  messages, memori_messages, documents, chunks_col, faults>>

routerVars == <<rt_text, rt_lang, rt_calls>>

retrieveVars == <<rv_store, rv_call>>

chunkVars == <<ck_text, ck_chunk_size, ck_overlap, ck_start, ck_chunks, ck_windows, ck_pc>>

translateVars == <<tr_calls>>

wrapperVars == <<mw_instance, mw_call>>

\* the variables of the functions taken on their own and of the wrapper singleton; the
\* handlers leave them alone
harnessVars == <<routerVars, retrieveVars, chunkVars, translateVars, wrapperVars>>

-----------------------------------------------------------------------------
(* Python str operations on sequences of characters                        *)

UpperCase == <<"A","B","C","D","E","F","G","H","I","J","K","L","M",
               "N","O","P","Q","R","S","T","U","V","W","X","Y","Z">>

LowerCase == <<"a","b","c","d","e","f","g","h","i","j","k","l","m",
               "n","o","p","q","r","s","t","u","v","w","x","y","z">>

\* the lower-case letter of each capital
LowerOf == [c \in {UpperCase[i] : i \in 1..Len(UpperCase)} |->
               LowerCase[CHOOSE i \in 1..Len(UpperCase) : UpperCase[i] = c]]

LowerChar(c) == IF c \in DOMAIN LowerOf THEN LowerOf[c] ELSE c

\* str.lower()
Lower(s) == [i \in 1..Len(s) |-> LowerChar(s[i])]

\* str.isspace() of one character
IsSpace(c) == c \in {" ", "\n", "\t", "\r"}

Min(a, b) == IF a < b THEN a ELSE b

Max(a, b) == IF a > b THEN a ELSE b

\* a slice bound as Python reads it: a negative one counts from the end
PyIndex(i, n) == IF i < 0 THEN Max(i + n, 0) ELSE Min(i, n)

\* s[a:b]
Slice(s, a, b) == SubSeq(s, PyIndex(a, Len(s)) + 1, PyIndex(b, Len(s)))

\* s[i:i+len(sub)] == sub
MatchAt(s, sub, i) ==
    /\ i >= 0
    /\ i + Len(sub) <= Len(s)
    /\ \A k \in 1..Len(sub) : s[i + k] = sub[k]

\* sub in s
In(sub, s) == \E i \in 0..(Len(s) - Len(sub)) : MatchAt(s, sub, i)

\* s.rfind(sub, start, end): the highest index in [start, end - len(sub)], or -1
RFind(s, sub, start, end) ==
    LET a == PyIndex(start, Len(s))
        e == PyIndex(end, Len(s))
        found == {i \in a..(e - Len(sub)) : MatchAt(s, sub, i)}
    IN  IF found = {} THEN -1 ELSE CHOOSE i \in found : \A j \in found : j <= i

\* s.lstrip(): only the leading white space goes
Strip_leading(s) ==
    LET keep == {i \in 1..Len(s) : ~IsSpace(s[i])}
    IN  IF keep = {} THEN <<>>
        ELSE SubSeq(s, CHOOSE i \in keep : \A j \in keep : i <= j, Len(s))

\* s.strip()
Strip(s) ==
    LET keep == {i \in 1..Len(s) : ~IsSpace(s[i])}
    IN  IF keep = {} THEN <<>>
        ELSE LET lo == CHOOSE i \in keep : \A j \in keep : i <= j
                 hi == CHOOSE i \in keep : \A j \in keep : j <= i
             IN  SubSeq(s, lo, hi)

RECURSIVE SplitFrom(_, _)
\* the words of s[i-1:], i 1-based
SplitFrom(s, i) ==
    IF i > Len(s) THEN <<>>
    ELSE IF IsSpace(s[i]) THEN SplitFrom(s, i + 1)
    ELSE LET stops == {j \in i..Len(s) : IsSpace(s[j])}
             stop == IF stops = {} THEN Len(s) + 1
                     ELSE CHOOSE j \in stops : \A k \in stops : j <= k
         IN  <<SubSeq(s, i, stop - 1)>> \o SplitFrom(s, stop)

\* s.split()
Split(s) == SplitFrom(s, 1)

RECURSIVE Join(_, _)
\* sep.join(parts)
Join(sep, parts) ==
    IF parts = <<>> THEN <<>>
    ELSE IF Len(parts) = 1 THEN parts[1]
    ELSE parts[1] \o sep \o Join(sep, Tail(parts))

\* [x for x in s if P(x)]
RECURSIVE SelectSeqOf(_, _)
SelectSeqOf(s, keep) ==
    IF s = <<>> THEN <<>>
    ELSE IF Head(s) \in keep THEN <<Head(s)>> \o SelectSeqOf(Tail(s), keep)
    ELSE SelectSeqOf(Tail(s), keep)

\* n copies of the character c
Repeat(c, n) == [i \in 1..n |-> c]

-----------------------------------------------------------------------------
(* services/llm/router.py                                                  *)

INDIC_LANGS == {"hi", "bn", "mr", "ta", "te", "gu", "kn", "ml", "or", "pa"}

HEAVY_KEYWORDS == <<
    <<"s","t","e","p"," ","b","y"," ","s","t","e","p">>,
    <<"d","e","t","a","i","l","e","d">>,
    <<"d","e","t","a","i","l">>,
    <<"e","x","p","l","a","i","n">>,
    <<"c","o","d","e">>,
    <<"a","l","g","o","r","i","t","h","m">>,
    <<"c","o","m","p","l","e","x">>,
    <<"a","d","v","a","n","c","e","d">> >>

LongTextThreshold == 300

HasHeavyKeyword(text_lower) ==
    \E k \in 1..Len(HEAVY_KEYWORDS) : In(HEAVY_KEYWORDS[k], text_lower)

\* a router that remembers: once it has answered "heavy" it keeps answering "heavy"
choose_model_sticky(user_text, lang_code) ==
    LET text_lower == Lower(user_text)
    IN  IF \E i \in 1..Len(rt_calls) : rt_calls[i].decision = "heavy" THEN "heavy"
        ELSE IF Len(user_text) > LongTextThreshold THEN "heavy"
        ELSE IF HasHeavyKeyword(text_lower) THEN "heavy"
        ELSE IF lang_code \in INDIC_LANGS /\ Len(user_text) <= LongTextThreshold
             THEN "light"
        ELSE "heavy"

\* a router that tests the language before the keywords
choose_model_lang_first(user_text, lang_code) ==
    LET text_lower == Lower(user_text)
    IN  IF Len(user_text) > LongTextThreshold THEN "heavy"
        ELSE IF lang_code \in INDIC_LANGS /\ Len(user_text) <= LongTextThreshold
             THEN "light"
        ELSE IF HasHeavyKeyword(text_lower) THEN "heavy"
        ELSE "heavy"

choose_model(user_text, lang_code) ==
    LET text_lower == Lower(user_text)
    IN  \* Rule 1: long text -> heavy
        IF Len(user_text) > LongTextThreshold THEN "heavy"
        \* Rule 2: heavy keywords -> heavy
        ELSE IF HasHeavyKeyword(text_lower) THEN "heavy"
        \* Rule 3: short Indic text -> light
        ELSE IF lang_code \in INDIC_LANGS /\ Len(user_text) <= LongTextThreshold
             THEN "light"
        \* default
        ELSE "heavy"

-----------------------------------------------------------------------------
(* The router on its own: choose_model applied to texts around the length  *)
(* threshold, with and without keywords, in every language code.           *)

MaxRouterCalls == 3

\* texts the keywords are tried in: exact, in capitals, and near misses
RouterCores ==
    {HEAVY_KEYWORDS[k] : k \in 1..Len(HEAVY_KEYWORDS)} \cup
    { <<"C","O","D","E">>,
      <<"E","x","P","l","A","i","N">>,
      <<"s","t","e","p"," "," ","b","y"," ","s","t","e","p">>,
      <<"c","o","d">>,
      <<"d","e","t","a","l">>,
      <<"n","a","m","a","s","t","e">>,
      <<"H","e","l","l","o">>,
      <<>> }

\* the core alone, and padded to 299, 300 and 301 characters
RouterPadded(core) ==
    {core} \cup
    UNION { { core \o Repeat("z", n - Len(core)), Repeat("z", n - Len(core)) \o core }
            : n \in (LongTextThreshold - 1)..(LongTextThreshold + 1) }

RouterTexts == UNION { RouterPadded(core) : core \in RouterCores }

RouterLangs == INDIC_LANGS \cup {"en", "HI", "auto"}

\* two fixed calls that can be made between the calls under test
RouterOtherInputs ==
    { [text |-> <<"c","o","d","e">>, lang |-> "hi"],
      [text |-> <<"o","k">>, lang |-> "ta"] }

InitRouterVars ==
    /\ rt_text \in RouterTexts
    /\ rt_lang \in RouterLangs
    /\ rt_calls = <<>>

\* no call of choose_model is made on its own
IdleRouterVars ==
    /\ rt_text = <<>>
    /\ rt_lang = ""
    /\ rt_calls = <<>>

\* one call of choose_model: the text under test or one of the other inputs
RouterCall ==
    /\ Len(rt_calls) < MaxRouterCalls
    /\ \E inp \in {[text |-> rt_text, lang |-> rt_lang]} \cup RouterOtherInputs :
          rt_calls' = Append(rt_calls,
                             [text |-> inp.text, lang |-> inp.lang,
                              decision |-> choose_model(inp.text, inp.lang)])
    /\ UNCHANGED <<rt_text, rt_lang, retrieveVars, chunkVars, translateVars, wrapperVars>>

-----------------------------------------------------------------------------
(* services/documents/parsers.py, services/documents/document_store.py     *)

MAX_CHUNK_SIZE == 1024

DefaultOverlap == 128

boundary_chars == << <<".", " ">>, <<"?", " ">>, <<"!", " ">>, <<"\n", "\n">> >>

\* a search for a sentence end that is made in the last window too
BestBreak_always_search(text, start, chunk_size) ==
    LET end == start + chunk_size
        hits == {k \in 1..Len(boundary_chars) :
                    RFind(text, boundary_chars[k], start, end) > start + chunk_size \div 2}
    IN  IF hits # {}
        THEN LET k == CHOOSE k \in hits : \A j \in hits : k <= j
             IN  RFind(text, boundary_chars[k], start, end) + Len(boundary_chars[k])
        ELSE end

\* a search that lets a delimiter straddle the raw end of the window
BestBreak_straddle(text, start, chunk_size) ==
    LET end == start + chunk_size
        hits == {k \in 1..Len(boundary_chars) :
                    RFind(text, boundary_chars[k], start, end + 1) > start + chunk_size \div 2}
    IN  IF end < Len(text) /\ hits # {}
        THEN LET k == CHOOSE k \in hits : \A j \in hits : k <= j
             IN  RFind(text, boundary_chars[k], start, end + 1) + Len(boundary_chars[k])
        ELSE end

\* a search that takes the delimiter nearest to the window end, of whichever kind
BestBreak_nearest(text, start, chunk_size) ==
    LET end == start + chunk_size
        hits == {k \in 1..Len(boundary_chars) :
                    RFind(text, boundary_chars[k], start, end) > start + chunk_size \div 2}
    IN  IF end < Len(text) /\ hits # {}
        THEN LET k == CHOOSE k \in hits : \A j \in hits :
                          RFind(text, boundary_chars[j], start, end)
                              <= RFind(text, boundary_chars[k], start, end)
             IN  RFind(text, boundary_chars[k], start, end) + Len(boundary_chars[k])
        ELSE end

\* the end of the window that starts at `start`: the first kind of delimiter, in the
\* order of boundary_chars, whose last occurrence lies in the second half
BestBreak(text, start, chunk_size) ==
    LET end == start + chunk_size
        hits == {k \in 1..Len(boundary_chars) :
                    RFind(text, boundary_chars[k], start, end) > start + chunk_size \div 2}
    IN  IF end < Len(text) /\ hits # {}
        THEN LET k == CHOOSE k \in hits : \A j \in hits : k <= j
             IN  RFind(text, boundary_chars[k], start, end) + Len(boundary_chars[k])
        ELSE end

RECURSIVE ChunkLoop(_, _, _, _, _)
\* the while loop of chunk_text, from the cursor `start` on
ChunkLoop(text, start, chunk_size, overlap, chunks) ==
    IF ~(start < Len(text)) THEN chunks
    ELSE LET end == BestBreak(text, start, chunk_size)
             chunk == Strip(Slice(text, start, end))
             chunks2 == IF chunk # <<>> THEN Append(chunks, chunk) ELSE chunks
             next == IF end < Len(text) THEN end - overlap ELSE Len(text)
         IN  ChunkLoop(text, next, chunk_size, overlap, chunks2)

chunk_text(text, chunk_size, overlap) ==
    IF text = <<>> THEN <<>> ELSE ChunkLoop(text, 0, chunk_size, overlap, <<>>)

\* a keyword with a length test of three characters and more
Keywords_three(query) ==
    LET words == Split(query)
        long == SelectSeqOf(words, {words[i] : i \in {j \in 1..Len(words) : Len(words[j]) > 2}})
    IN  [i \in 1..Len(long) |-> Lower(long[i])]

\* keywords = [word.lower() for word in query.split() if len(word) > 3]
Keywords(query) ==
    LET words == Split(query)
        long == SelectSeqOf(words, {words[i] : i \in {j \in 1..Len(words) : Len(words[j]) > 3}})
    IN  [i \in 1..Len(long) |-> Lower(long[i])]

RECURSIVE RegexAtoms(_, _, _)
\* one alternative of the pattern as the regular expression engine reads it: "." is
\* any character but a newline, "?" makes the item before it optional ("??" lazily
\* so), and a "?" with no item to apply to makes the pattern invalid.  Every other
\* character of the queries of this model (letters, digits) stands for itself.
RegexAtoms(p, i, atoms) ==
    IF i > Len(p) THEN [valid |-> TRUE, atoms |-> atoms]
    ELSE IF p[i] = "?"
    THEN IF atoms = <<>> \/ atoms[Len(atoms)].quant = "lazy"
         THEN [valid |-> FALSE, atoms |-> <<>>]
         ELSE RegexAtoms(p, i + 1,
                         [atoms EXCEPT ![Len(atoms)].quant =
                             IF @ = "one" THEN "optional" ELSE "lazy"])
    ELSE RegexAtoms(p, i + 1, Append(atoms, [char |-> p[i], quant |-> "one"]))

RegexValid(keyword) == RegexAtoms(keyword, 1, <<>>).valid

RECURSIVE RegexMatchAt(_, _, _, _)
\* the items from the k-th on match the text from its i-th character on, $options "i"
RegexMatchAt(atoms, k, text, i) ==
    IF k > Len(atoms) THEN TRUE
    ELSE LET a == atoms[k]
             hit == /\ i <= Len(text)
                    /\ IF a.char = "." THEN text[i] # "\n"
                       ELSE LowerChar(text[i]) = LowerChar(a.char)
         IN  \/ hit /\ RegexMatchAt(atoms, k + 1, text, i + 1)
             \/ a.quant # "one" /\ RegexMatchAt(atoms, k + 1, text, i)

\* one keyword of the pattern found somewhere in the text: {"$regex": ..., "$options": "i"}
RegexSearch(keyword, text) ==
    LET atoms == RegexAtoms(keyword, 1, <<>>).atoms
    IN  \E i \in 1..(Len(text) + 1) : RegexMatchAt(atoms, 1, text, i)

\* a cursor that does not filter on user_id
ChunkFind_any_owner(col, user_id, keywords, limit) ==
    LET pattern == SubSeq(keywords, 1, Min(5, Len(keywords)))
        hit == {i \in 1..Len(col) :
                   \E k \in 1..Len(pattern) : RegexSearch(pattern[k], col[i].text)}
        found == SelectSeqOf(col, {col[i] : i \in hit})
    IN  SubSeq(found, 1, Min(limit, Len(found)))

\* the records the cursor of get_relevant_chunks yields: the records of the user
\* whose text matches one of the first five keywords, in the collection's order, cut
\* at `limit` (limit > 0)
ChunkFind(col, user_id, keywords, limit) ==
    LET pattern == SubSeq(keywords, 1, Min(5, Len(keywords)))
        hit == {i \in 1..Len(col) :
                   /\ col[i].user_id = user_id
                   /\ \E k \in 1..Len(pattern) : RegexSearch(pattern[k], col[i].text)}
        found == SelectSeqOf(col, {col[i] : i \in hit})
    IN  SubSeq(found, 1, Min(limit, Len(found)))

\* chunks.append(doc["text"]) for the records of the cursor
ChunkQuery(col, user_id, keywords, limit) ==
    LET cut == ChunkFind(col, user_id, keywords, limit)
    IN  [i \in 1..Len(cut) |-> cut[i].text]

\* get_relevant_chunks as a whole: whether find was called, whether the store
\* rejected the pattern, the records read and the texts returned
get_relevant_chunks(col, user_id, query, limit) ==
    LET keywords == Keywords(query)
        pattern == SubSeq(keywords, 1, Min(5, Len(keywords)))
    IN  IF keywords = <<>>
        THEN [find_called |-> FALSE, raised |-> FALSE, docs |-> <<>>, chunks |-> <<>>]
        ELSE IF \E k \in 1..Len(pattern) : ~RegexValid(pattern[k])
        THEN [find_called |-> TRUE, raised |-> TRUE, docs |-> <<>>, chunks |-> <<>>]
        ELSE [find_called |-> TRUE, raised |-> FALSE,
              docs |-> ChunkFind(col, user_id, keywords, limit),
              chunks |-> ChunkQuery(col, user_id, keywords, limit)]

\* chunk records numbered from 1
ChunkRecords_from_one(document_id, user_id, chunks) ==
    [i \in 1..Len(chunks) |->
        [document_id |-> document_id, user_id |-> user_id,
         text |-> chunks[i], chunk_index |-> i]]

\* the records save_uploaded_file builds for the chunks of one document
ChunkRecords(document_id, user_id, chunks) ==
    [i \in 1..Len(chunks) |->
        [document_id |-> document_id, user_id |-> user_id,
         text |-> chunks[i], chunk_index |-> i - 1]]

-----------------------------------------------------------------------------
(* Retrieval on its own: uploads by two users build the chunk store, and     *)
(* get_relevant_chunks is called for either user with queries without        *)
(* keywords, with plain keywords, with more than five keywords and with      *)
(* keywords that hold "?" or ".".                                            *)

MaxStoreUploads == 2

RetrieveOwners == {"alice", "bob"}

\* texts of uploaded files, each one chunk long
RetrieveDocuments ==
    { <<"T","h","e"," ","C","O","D","E"," ","o","f"," ","h","o","n","o","u","r",".">>,
      <<"s","i","x","t","h"," ","s","e","n","s","e">>,
      <<"c","o","d"," ","a","u","r"," ","k","y","a">> }

RetrieveQueries ==
    { <<>>,
      <<"a","u","r"," ","k","y","a">>,
      <<" ","a","\t","b","c"," ","\n">>,
      <<"C","o","d","e">>,
      <<"c","o","d","e","?">>,
      <<"h","o",".","o","u","r">>,
      <<"?","c","o","d","e">>,
      <<"a","l","p","h","a"," ","b","e","t","a"," ","g","a","m","m","a"," ",
        "d","e","l","t","a"," ","o","m","e","g","a"," ","s","i","x","t","h">>,
      <<"k","y","a"," ","c","o","d","e">> }

\* limit as the callers pass it: a positive number
RetrieveLimits == {1, 5}

NoRetrieveCall ==
    [made |-> FALSE, owner |-> "", query |-> <<>>, limit |-> 0, store |-> <<>>,
     find_called |-> FALSE, raised |-> FALSE, docs |-> <<>>, chunks |-> <<>>]

IdleRetrieveVars ==
    /\ rv_store = <<>>
    /\ rv_call = NoRetrieveCall

StoredDocuments(col) == {col[i].document_id : i \in 1..Len(col)}

\* save_uploaded_file: the text is chunked and the chunk records are inserted
RetrieveUpload ==
    /\ Cardinality(StoredDocuments(rv_store)) < MaxStoreUploads
    /\ \E user_id \in RetrieveOwners, text \in RetrieveDocuments :
          rv_store' = rv_store \o
              ChunkRecords(Cardinality(StoredDocuments(rv_store)) + 1, user_id,
                           chunk_text(text, MAX_CHUNK_SIZE, DefaultOverlap))
    /\ UNCHANGED <<rv_call, routerVars, chunkVars, translateVars, wrapperVars, pipelineVars>>

\* one call of get_relevant_chunks on the store as it is
RetrieveCall ==
    /\ \E owner \in RetrieveOwners, query \in RetrieveQueries, limit \in RetrieveLimits :
          LET got == get_relevant_chunks(rv_store, owner, query, limit)
          IN  rv_call' = [made |-> TRUE, owner |-> owner, query |-> query,
                          limit |-> limit, store |-> rv_store,
                          find_called |-> got.find_called, raised |-> got.raised,
                          docs |-> got.docs, chunks |-> got.chunks]
    /\ UNCHANGED <<rv_store, routerVars, chunkVars, translateVars, wrapperVars, pipelineVars>>

-----------------------------------------------------------------------------
(* chunk_text on its own, one action per pass of its while loop, for every   *)
(* short text over a letter, a full stop and a blank, some longer texts with *)
(* sentence ends, and chunk sizes and overlaps around each other.            *)

MaxChunkTextLen == 4

\* passes of the loop the model follows; a call whose cursor advances on every pass
\* returns within as many passes as the text has characters. A call still in the
\* loop after that many passes has a cursor that stood still or moved back, and the
\* code goes on looping where the model stops following it.
MaxChunkPasses == 16

RECURSIVE TextsOver(_, _)
\* the texts of at most n characters over the alphabet
TextsOver(alphabet, n) ==
    IF n = 0 THEN {<<>>}
    ELSE LET shorter == TextsOver(alphabet, n - 1)
         IN  shorter \cup {Append(t, c) : t \in shorter, c \in alphabet}

ChunkLongTexts ==
    { <<"a","b","c","."," ","d","e","f","?"," ","g","h","!"," ","i","j">>,
      <<"a","\n","\n","b","."," ","c">>,
      <<"a","b","c","d"," ","e","f","g","h"," ","i","j","k","l">>,
      <<" "," ","a","b","."," "," ","c","d"," ","\n">>,
      <<"a","a","a","a","\n","\n","a","a","a","a","."," ","a","a","a">>,
      <<"a","b","c","d","e","."," ","f","g","h","i","j","k">>,
      <<"a","b","c","d","e","f","."," ","?"," ","g","h","i","j","k">>,
      <<"a","b","c","d","e","f","g","."," ","h">> }

ChunkTexts == TextsOver({"a", ".", " "}, MaxChunkTextLen) \cup ChunkLongTexts

ChunkSizes == {1, 2, 3, 5, 8, 10, 16}

ChunkOverlaps == {0, 1, 2, 3, 7}

IdleChunkVars ==
    /\ ck_text = <<>>
    /\ ck_chunk_size = 1
    /\ ck_overlap = 0
    /\ ck_start = 0
    /\ ck_chunks = <<>>
    /\ ck_windows = <<>>
    /\ ck_pc = "idle"

\* chunk_text is called: if not text: return []; else chunks = [], start = 0
ChunkEnter ==
    /\ ck_pc = "idle"
    /\ \E text \in ChunkTexts, chunk_size \in ChunkSizes, overlap \in ChunkOverlaps :
          /\ ck_text' = text
          /\ ck_chunk_size' = chunk_size
          /\ ck_overlap' = overlap
          /\ ck_pc' = IF text = <<>> THEN "returned" ELSE "loop"
    /\ UNCHANGED <<ck_start, ck_chunks, ck_windows,
                   routerVars, retrieveVars, translateVars, wrapperVars, pipelineVars>>

\* one pass of `while start < text_length`
ChunkPass ==
    /\ ck_pc = "loop"
    /\ ck_start < Len(ck_text)
    /\ Len(ck_windows) < MaxChunkPasses
    /\ \E end \in {BestBreak(ck_text, ck_start, ck_chunk_size)} :
       \E chunk \in {Strip(Slice(ck_text, ck_start, end))} :
           /\ ck_chunks' = IF chunk # <<>> THEN Append(ck_chunks, chunk) ELSE ck_chunks
           /\ ck_windows' = Append(ck_windows,
                                   [start |-> ck_start, end |-> end,
                                    searched |-> ck_start + ck_chunk_size < Len(ck_text),
                                    from |-> PyIndex(ck_start, Len(ck_text)),
                                    to |-> PyIndex(end, Len(ck_text)),
                                    chunk |-> chunk])
           /\ ck_start' = IF end < Len(ck_text) THEN end - ck_overlap ELSE Len(ck_text)
    /\ UNCHANGED <<ck_text, ck_chunk_size, ck_overlap, ck_pc,
                   routerVars, retrieveVars, translateVars, wrapperVars, pipelineVars>>

\* the loop condition fails: return chunks
ChunkReturn ==
    /\ ck_pc = "loop"
    /\ ~(ck_start < Len(ck_text))
    /\ ck_pc' = "returned"
    /\ UNCHANGED <<ck_text, ck_chunk_size, ck_overlap, ck_start, ck_chunks, ck_windows,
                   routerVars, retrieveVars, translateVars, wrapperVars, pipelineVars>>

-----------------------------------------------------------------------------
(* LocalLLMClient.translate on its own                                       *)

MaxTranslateCalls == 1

TRANSLATION_PROMPT_TEMPLATE(source_lang, target_lang, text) ==
    <<"Translate the following text from ", source_lang, " to ", target_lang,
      ".\nOutput ONLY the translated text, nothing else.\n\nText: ">>
    \o text \o <<"\n\nTranslation:">>

\* a translate that asks the router, as chat does
LocalLLMClient_translate_routed(text, source_lang, target_lang) ==
    [backend |-> IF choose_model(text, source_lang) = "light" THEN "sarvam" ELSE "llama",
     messages |-> << [role |-> "user",
                      content |-> TRANSLATION_PROMPT_TEMPLATE(source_lang, target_lang,
                                                              text)] >>]

\* LocalLLMClient.translate up to the call of the backend: the client that is called
\* and the messages it is called with
LocalLLMClient_translate(text, source_lang, target_lang) ==
    LET indic_langs == {"hi", "bn", "mr", "ta", "te", "gu", "kn", "ml", "or", "pa"}
    IN  [backend |-> IF source_lang \in indic_langs \/ target_lang \in indic_langs
                     THEN "sarvam" ELSE "llama",
         messages |-> << [role |-> "user",
                          content |-> TRANSLATION_PROMPT_TEMPLATE(source_lang, target_lang,
                                                                  text)] >>]

\* texts to translate: short, with a heavy keyword, longer than the router's threshold
TranslateTexts ==
    { <<"n","a","m","a","s","t","e">>,
      <<"e","x","p","l","a","i","n"," ","c","o","d","e">>,
      Repeat("z", LongTextThreshold + 1) }

TranslateLangs == INDIC_LANGS \cup {"en", "fr", "HI", "auto"}

IdleTranslateVars == tr_calls = <<>>

\* None where a MemoriWrapper is expected
NoWrapper == [llm_client |-> "None", built_by_call |-> 0]

NoWrapperCall ==
    [count |-> 0, llm_client |-> "None", before |-> NoWrapper, raised |-> FALSE,
     value |-> NoWrapper]

\* _memori_wrapper: MemoriWrapper = None
IdleWrapperVars ==
    /\ mw_instance = NoWrapper
    /\ mw_call = NoWrapperCall

\* one call of translate: the backend calls it makes are logged with its arguments
TranslateCall ==
    /\ Len(tr_calls) < MaxTranslateCalls
    /\ \E text \in TranslateTexts, source_lang \in TranslateLangs,
          target_lang \in TranslateLangs :
          LET call == LocalLLMClient_translate(text, source_lang, target_lang)
          IN  tr_calls' = Append(tr_calls,
                                 [text |-> text, source_lang |-> source_lang,
                                  target_lang |-> target_lang,
                                  backend_calls |-> <<call>>])
    /\ UNCHANGED <<routerVars, retrieveVars, chunkVars, wrapperVars, pipelineVars>>

-----------------------------------------------------------------------------
(* The request pipeline: bounds and the values requests are made of        *)

MaxRequests == 2

MaxUploads == 1

\* how many collaborator calls (stores, STT, TTS, model backends) fail or answer
\* without content in one run
MaxFaults == 1

Requests == 1..MaxRequests

\* the users who upload documents, and the ones who chat
Users == {"alice", "bob"}

Callers == {"alice"}

\* an utterance with two keywords for retrieval, and one with none (no word longer than 3)
Utterances ==
    { <<"k","a","h","a","n","i"," ","s","u","n","a","o">>,
      <<"a","u","r"," ","k","y","a">> }

\* the text parse_file extracts from an uploaded file; it holds the heavy keyword "code"
DocumentTexts ==
    { <<" ","K","a","h","a","n","i",":"," ","t","h","e"," ","c","o","d","e"," ",
        "o","f"," ","h","o","n","o","u","r",".","\n">> }

\* session ids: the one a client sends, str(inserted_id) of the n-th session record
NoSession == [by |-> "none", n |-> 0]

ClientSession == [by |-> "client", n |-> 0]

NewSessionId(n) == [by |-> "server", n |-> n]

\* the body of the "message.content" field Ollama answers with
LlamaContent == <<" ","t","h","e","e","k"," ","h","a","i","\n">>

\* outputs[0]["generated_text"] of the Sarvam pipeline
SarvamGenerated == <<"h","a","a","n"," ">>

SarvamApology ==
    <<"I"," ","a","p","o","l","o","g","i","z","e",","," ","b","u","t"," ","I"," ",
      "c","o","u","l","d","n","'","t"," ","g","e","n","e","r","a","t","e"," ","a"," ",
      "r","e","s","p","o","n","s","e",".">>

SYSTEM_PROMPT == <<"You are Drishti AI, a helpful multilingual assistant ...">>

\* what Ollama does with a request: a body with message.content, a 2xx body without
\* it, a refused connection, a non-2xx status, a 2xx body that is not JSON
LlamaOutcomes == {"ok", "no_content", "connect_error", "http_status_error", "invalid_body"}

SarvamOutcomes == {"ok", "no_outputs", "error"}

-----------------------------------------------------------------------------
(* services/llm: the two backends and the client that routes between them  *)

\* LlamaClient.chat: what the call returns or raises, by what Ollama did
LlamaClient_chat(outcome) ==
    CASE outcome = "ok" ->
            [raised |-> FALSE, value |-> Strip(LlamaContent), error |-> ""]
      [] outcome = "no_content" ->
            [raised |-> FALSE, value |-> Strip(<<>>), error |-> ""]
      [] outcome = "connect_error" ->
            [raised |-> TRUE, value |-> <<>>, error |-> "Failed to connect to Ollama"]
      [] outcome = "http_status_error" ->
            [raised |-> TRUE, value |-> <<>>, error |-> "Ollama API error"]
      [] outcome = "invalid_body" ->
            [raised |-> TRUE, value |-> <<>>, error |-> "Llama client error"]

\* SarvamClient.chat: what the call returns or raises, by what the pipeline did
SarvamClient_chat(outcome) ==
    CASE outcome = "ok" ->
            [raised |-> FALSE, value |-> Strip(SarvamGenerated), error |-> ""]
      [] outcome = "no_outputs" ->
            [raised |-> FALSE, value |-> SarvamApology, error |-> ""]
      [] outcome = "error" ->
            [raised |-> TRUE, value |-> <<>>, error |-> "pipeline error"]

\* a client that sends every turn to Llama
BackendOf_always_llama(model_choice) == "llama"

\* LocalLLMClient.chat: the backend client a decision is sent to
BackendOf(model_choice) == IF model_choice = "light" THEN "sarvam" ELSE "llama"

\* LocalLLMClient.chat: the model_used it reports
ModelUsed(model_choice) == IF model_choice = "light" THEN "sarvam-1" ELSE "llama-3.1-8b"

BackendOutcomes(backend) == IF backend = "sarvam" THEN SarvamOutcomes ELSE LlamaOutcomes

BackendChat(backend, outcome) ==
    IF backend = "sarvam" THEN SarvamClient_chat(outcome) ELSE LlamaClient_chat(outcome)

\* LocalLLMClient.chat up to the call of the backend: the decision is taken on the
\* text it is given, and that text is the user turn
LocalLLMClient_route(text, lang) ==
    LET model_choice == choose_model(text, lang)
    IN  [model_choice |-> model_choice,
         backend |-> BackendOf(model_choice),
         messages |-> << [role |-> "system", content |-> SYSTEM_PROMPT],
                         [role |-> "user", content |-> text] >>]

\* LocalLLMClient.chat once the backend has answered
LocalLLMClient_result(model_choice, answer) ==
    [raised |-> answer.raised,
     reply |-> answer.value,
     model_used |-> IF answer.raised THEN "none" ELSE ModelUsed(model_choice),
     error |-> answer.error]

-----------------------------------------------------------------------------
(* services/memory/memori_client.py                                        *)

MemoriRecord(turn, user_id, session_id, text, result) ==
    [turn |-> turn, entity_id |-> user_id, process_id |-> "drishti-ai",
     session_id |-> session_id, user_message |-> text,
     assistant_message |-> result.reply, model_used |-> result.model_used]

\* a wrapper that stores the exchange whether or not the model call raised
MemoriWrapper_store_always(db, turn, user_id, session_id, text, result, insert_ok) ==
    [raised |-> result.raised,
     db |-> IF insert_ok
            THEN Append(db, MemoriRecord(turn, user_id, session_id, text, result))
            ELSE db,
     insert_failed |-> ~insert_ok]

\* a wrapper that keeps one exchange per session: a later turn of the session
\* overwrites the record of the earlier one
MemoriWrapper_store_upsert(db, turn, user_id, session_id, text, result, insert_ok) ==
    IF result.raised
    THEN [raised |-> TRUE, db |-> db, insert_failed |-> FALSE]
    ELSE [raised |-> FALSE,
          db |-> IF ~insert_ok THEN db
                 ELSE IF \E i \in 1..Len(db) : db[i].session_id = session_id
                 THEN [i \in 1..Len(db) |->
                          IF db[i].session_id = session_id
                          THEN MemoriRecord(turn, user_id, session_id, text, result)
                          ELSE db[i]]
                 ELSE Append(db, MemoriRecord(turn, user_id, session_id, text, result)),
          insert_failed |-> ~insert_ok]

\* MemoriWrapper.chat after self.llm_client.chat: an exception of the model call
\* leaves the method; an exception of insert_one is caught and printed
MemoriWrapper_store(db, turn, user_id, session_id, text, result, insert_ok) ==
    IF result.raised
    THEN [raised |-> TRUE, db |-> db, insert_failed |-> FALSE]
    ELSE [raised |-> FALSE,
          db |-> IF insert_ok
                 THEN Append(db, MemoriRecord(turn, user_id, session_id, text, result))
                 ELSE db,
          insert_failed |-> ~insert_ok]

-----------------------------------------------------------------------------
(* api/routes_chat.py: values of the handlers                              *)

NoBody ==
    [user_text |-> <<>>, assistant_text |-> <<>>, lang |-> "", model_used |-> "",
     session_id |-> NoSession, audio_format |-> "", audio_base64 |-> "None"]

NoResponse == [status |-> 0, detail |-> "", body |-> NoBody]

\* raise HTTPException(status_code=..., detail=...)
HTTPException(status_code, detail) ==
    [status |-> status_code, detail |-> detail, body |-> NoBody]

\* an exception no handler catches: the framework answers 500
UnhandledException == HTTPException(500, "Internal Server Error")

NotInitialized == HTTPException(500, "Memori not initialized")

\* an STT failure that reaches the client like any uncaught exception
SttFailure_uncaught == HTTPException(500, "Internal Server Error")

\* chat_audio: except Exception around transcribe_audio
SttFailure == HTTPException(400, "STT error")

\* chat_audio: except Exception around synthesize_speech
TtsFailure == HTTPException(500, "TTS error")

NoResult == [raised |-> FALSE, reply |-> <<>>, model_used |-> "none", error |-> ""]

NoRequestData == [kind |-> "none", user_id |-> "", session_id |-> NoSession]

NoLocal ==
    [user_text |-> <<>>, lang |-> "", session_id |-> NoSession, chunks |-> <<>>,
     text_with_context |-> <<>>, model_choice |-> "none", llm_calls |-> <<>>,
     backend_outcome |-> "none", result |-> NoResult, audio_base64 |-> "None"]

ContextOpening(kind) ==
    IF kind = "text"
    THEN <<"\n","\n","[","C","o","n","t","e","x","t"," ","f","r","o","m"," ",
           "d","o","c","u","m","e","n","t","s",":"," ">>
    ELSE <<"\n","\n","[","C","o","n","t","e","x","t",":"," ">>

\* a handler that annotates the utterance whether or not there are chunks
TextWithContext_always_annotated(kind, user_text, chunks) ==
    user_text \o ContextOpening(kind) \o Join(<<"\n","\n">>, chunks) \o <<"]">>

\* context = "\n\n".join(chunks) if chunks else ""; the text handed to the wrapper
TextWithContext(kind, user_text, chunks) ==
    LET context == IF chunks # <<>> THEN Join(<<"\n","\n">>, chunks) ELSE <<>>
    IN  IF context # <<>>
        THEN user_text \o ContextOpening(kind) \o context \o <<"]">>
        ELSE user_text

\* title of a new session: text[:50] + ("..." if len(text) > 50 else "")
SessionTitle(text) ==
    Slice(text, 0, 50) \o (IF Len(text) > 50 THEN <<".",".",".">> ELSE <<>>)

SessionRecord(turn, id, user_id, text) ==
    [turn |-> turn, id |-> id, user_id |-> user_id, title |-> SessionTitle(text),
     updates |-> 0]

UserMessage(turn, loc) ==
    [turn |-> turn, session_id |-> loc.session_id, sender |-> "user",
     text |-> loc.user_text, lang |-> loc.lang, model_used |-> ""]

AssistantMessage(turn, loc) ==
    [turn |-> turn, session_id |-> loc.session_id, sender |-> "assistant",
     text |-> loc.result.reply, lang |-> loc.lang, model_used |-> loc.result.model_used]

\* sessions_col.update_one({"_id": ...}, {"$set": {"updated_at": ...}})
TouchSession(col, id) ==
    [i \in 1..Len(col) |->
        IF col[i].id = id THEN [col[i] EXCEPT !.updates = @ + 1] ELSE col[i]]

TextChatResponse(loc) ==
    [status |-> 200, detail |-> "",
     body |-> [user_text |-> loc.user_text, assistant_text |-> loc.result.reply,
               lang |-> loc.lang, model_used |-> loc.result.model_used,
               session_id |-> loc.session_id, audio_format |-> "",
               audio_base64 |-> "None"]]

AudioChatResponse(loc) ==
    [status |-> 200, detail |-> "",
     body |-> [user_text |-> loc.user_text, assistant_text |-> loc.result.reply,
               lang |-> loc.lang, model_used |-> loc.result.model_used,
               session_id |-> loc.session_id, audio_format |-> "wav",
               audio_base64 |-> loc.audio_base64]]

\* _memori_wrapper.chat(...) is entered: LocalLLMClient.chat routes on the text it
\* is given and calls the backend; the call holds the event loop
CallWrapper(kind, loc) ==
    LET text == TextWithContext(kind, loc.user_text, loc.chunks)
        route == LocalLLMClient_route(text, loc.lang)
    IN  [pc |-> "in_llm",
         local |-> [loc EXCEPT !.text_with_context = text,
                               !.model_choice = route.model_choice,
                               !.llm_calls = Append(@, [backend |-> route.backend,
                                                        messages |-> route.messages])]]

\* get_relevant_chunks up to its first suspension: without keywords it returns []
\* at once and the handler goes on into the wrapper; otherwise it awaits the cursor
Retrieve(kind, user_id, loc) ==
    IF Keywords(loc.user_text) = <<>>
    THEN CallWrapper(kind, [loc EXCEPT !.chunks = <<>>])
    ELSE [pc |-> "await_chunks", local |-> loc]

\* a handler that creates a session record whether or not the request names one
GetOrCreateSession_always_create(kind, user_id, session_id, loc) ==
    [pc |-> "await_session_insert", local |-> loc]

\* "Get or create session" and what follows, up to the first suspension
GetOrCreateSession(kind, user_id, session_id, loc) ==
    IF session_id = NoSession
    THEN [pc |-> "await_session_insert", local |-> loc]
    ELSE Retrieve(kind, user_id, [loc EXCEPT !.session_id = session_id])

\* handler r runs on to the suspension `at`
Suspend(r, at) ==
    /\ pc' = [pc EXCEPT ![r] = at.pc]
    /\ local' = [local EXCEPT ![r] = at.local]
    /\ loop' = IF at.pc = "in_llm" THEN {r} ELSE {}
    /\ UNCHANGED response

\* handler r ends with the response resp
Finish(r, resp, loc) ==
    /\ pc' = [pc EXCEPT ![r] = "done"]
    /\ local' = [local EXCEPT ![r] = loc]
    /\ response' = [response EXCEPT ![r] = resp]
    /\ loop' = {}

\* handler r ends because a collaborator call raised; `what` names the calls of
\* this stretch that raised
Raise(r, what, resp, loc) ==
    /\ Finish(r, resp, loc)
    /\ fault' = [fault EXCEPT ![r] = @ \cup what]

-----------------------------------------------------------------------------
(* The handlers, one action per uninterrupted stretch                      *)

RetrievalLimit == 5

\* TextChatRequest.lang as sent, and what langdetect.detect does for "auto"
RequestLangs == {"auto", "hi", "en"}

DetectOutcomes == {"hi", "en", "LangDetectException"}

\* what WhisperService.transcribe_audio returns when it does not raise
SttResults == [text : Utterances, lang : {"hi", "en"}]

storeVars == <<sessions, messages, memori_messages, documents, chunks_col>>

InitPipelineVars ==
    /\ memori_wrapper = "None"
    /\ loop = {}
    /\ pc = [r \in Requests |-> "idle"]
    /\ request = [r \in Requests |-> NoRequestData]
    /\ local = [r \in Requests |-> NoLocal]
    /\ fault = [r \in Requests |-> {}]
    /\ response = [r \in Requests |-> NoResponse]
    /\ sessions = <<>>
    /\ messages = <<>>
    /\ memori_messages = <<>>
    /\ documents = <<>>
    /\ chunks_col = <<>>
    /\ faults = 0

\* the environment lets n more collaborator calls fail
Failing(n) ==
    /\ faults + n <= MaxFaults
    /\ faults' = faults + n

\* the bound on the calls of get_memori_wrapper that are followed
MaxWrapperCalls == 2

\* the client main.lifespan builds, the clients another caller may hand over, and no
\* client at all
LlmClients == {"llm_client", "other_client", "None"}

\* MemoriWrapper(llm_client=..., ...): the n-th call of get_memori_wrapper built it
MemoriWrapper(llm_client, n) == [llm_client |-> llm_client, built_by_call |-> n]

\* a get_memori_wrapper that builds a wrapper on every call
get_memori_wrapper_rebuilding(instance, llm_client, n) ==
    IF llm_client = "None"
    THEN [raised |-> TRUE, instance |-> instance, value |-> NoWrapper]
    ELSE [raised |-> FALSE, instance |-> MemoriWrapper(llm_client, n),
          value |-> MemoriWrapper(llm_client, n)]

\* get_memori_wrapper(llm_client) as its n-th call, the module global being `instance`:
\* ValueError("llm_client required for first initialization"), or the global after the
\* call and the value returned
get_memori_wrapper(instance, llm_client, n) ==
    IF instance = NoWrapper
    THEN IF llm_client = "None"
         THEN [raised |-> TRUE, instance |-> instance, value |-> NoWrapper]
         ELSE [raised |-> FALSE, instance |-> MemoriWrapper(llm_client, n),
               value |-> MemoriWrapper(llm_client, n)]
    ELSE [raised |-> FALSE, instance |-> instance, value |-> instance]

\* the module global and the record of the call after get_memori_wrapper(llm_client)
WrapperCalled(llm_client) ==
    LET got == get_memori_wrapper(mw_instance, llm_client, mw_call.count + 1)
    IN  /\ mw_instance' = got.instance
        /\ mw_call' = [count |-> mw_call.count + 1, llm_client |-> llm_client,
                       before |-> mw_instance, raised |-> got.raised,
                       value |-> got.value]

\* get_memori_wrapper called by some other code than main.lifespan
WrapperCall ==
    /\ mw_call.count < MaxWrapperCalls
    /\ loop = {}
    /\ \E llm_client \in LlmClients \ {"llm_client"} : WrapperCalled(llm_client)
    /\ UNCHANGED <<routerVars, retrieveVars, chunkVars, translateVars, pipelineVars>>

\* main.lifespan: the services are built and injected into the routes
lifespan ==
    /\ memori_wrapper = "None"
    /\ loop = {}
    /\ WrapperCalled("llm_client")
    /\ memori_wrapper' = "set"
    /\ UNCHANGED <<loop, pc, request, local, fault, response, storeVars, faults,
                   routerVars, retrieveVars, chunkVars, translateVars>>

\* routes_files.upload_file -> save_uploaded_file: the document record and the
\* records of its chunks
upload_file(user_id, text) ==
    /\ loop = {}
    /\ Len(documents) < MaxUploads
    /\ LET chunks == chunk_text(text, MAX_CHUNK_SIZE, DefaultOverlap)
           document_id == Len(documents) + 1
       IN  /\ documents' = Append(documents, [id |-> document_id, user_id |-> user_id])
           /\ chunks_col' = chunks_col \o ChunkRecords(document_id, user_id, chunks)
    /\ UNCHANGED <<memori_wrapper, loop, pc, request, local, fault, response,
                   sessions, messages, memori_messages, faults, harnessVars>>

\* chat_text from its entry to its first suspension
chat_text(r) ==
    /\ pc[r] = "idle"
    /\ \A q \in Requests : q < r => pc[q] # "idle"
    /\ loop = {}
    /\ \E user_id \in Callers, session_id \in {NoSession, ClientSession},
          text \in Utterances, lang_in \in RequestLangs, detected \in DetectOutcomes :
          LET lang == IF lang_in # "auto" THEN lang_in
                      ELSE IF detected = "LangDetectException" THEN "en"
                      ELSE detected
              loc == [NoLocal EXCEPT !.user_text = text, !.lang = lang]
          IN  /\ request' = [request EXCEPT ![r] =
                                [kind |-> "text", user_id |-> user_id,
                                 session_id |-> session_id]]
              /\ IF memori_wrapper = "None"
                 THEN Finish(r, NotInitialized, NoLocal)
                 ELSE Suspend(r, GetOrCreateSession("text", user_id, session_id, loc))
    /\ UNCHANGED <<memori_wrapper, fault, storeVars, faults, harnessVars>>

\* chat_audio from its entry to its first suspension: transcribe_audio is a
\* synchronous call
chat_audio(r) ==
    /\ pc[r] = "idle"
    /\ \A q \in Requests : q < r => pc[q] # "idle"
    /\ loop = {}
    /\ \E user_id \in Callers, session_id \in {NoSession, ClientSession},
          stt_ok \in BOOLEAN, stt_result \in SttResults :
          LET loc == [NoLocal EXCEPT !.user_text = stt_result.text,
                                     !.lang = stt_result.lang]
          IN  /\ request' = [request EXCEPT ![r] =
                                [kind |-> "audio", user_id |-> user_id,
                                 session_id |-> session_id]]
              /\ IF memori_wrapper = "None"
                 THEN Finish(r, NotInitialized, NoLocal) /\ UNCHANGED <<fault, faults>>
                 ELSE IF ~stt_ok
                 THEN Raise(r, {"stt"}, SttFailure, NoLocal) /\ Failing(1)
                 ELSE /\ Suspend(r, GetOrCreateSession("audio", user_id, session_id, loc))
                      /\ UNCHANGED <<fault, faults>>
    /\ UNCHANGED <<memori_wrapper, storeVars, harnessVars>>

\* await sessions_col.insert_one(session_record) returns or raises
session_inserted(r) ==
    /\ pc[r] = "await_session_insert"
    /\ loop = {}
    /\ \E ok \in BOOLEAN :
          IF ok
          THEN LET id == NewSessionId(Len(sessions) + 1)
               IN  /\ sessions' = Append(sessions,
                                         SessionRecord(r, id, request[r].user_id,
                                                       local[r].user_text))
                   /\ Suspend(r, Retrieve(request[r].kind, request[r].user_id,
                                          [local[r] EXCEPT !.session_id = id]))
                   /\ UNCHANGED <<fault, faults>>
          ELSE /\ Raise(r, {"session_insert"}, UnhandledException, local[r])
               /\ Failing(1)
               /\ UNCHANGED sessions
    /\ UNCHANGED <<memori_wrapper, request, messages, memori_messages, documents,
                   chunks_col, harnessVars>>

\* the cursor of get_relevant_chunks is read, or the store raises
chunks_returned(r) ==
    /\ pc[r] = "await_chunks"
    /\ loop = {}
    /\ \E ok \in BOOLEAN :
          IF ok
          THEN LET chunks == ChunkQuery(chunks_col, request[r].user_id,
                                        Keywords(local[r].user_text), RetrievalLimit)
               IN  /\ Suspend(r, CallWrapper(request[r].kind,
                                             [local[r] EXCEPT !.chunks = chunks]))
                   /\ UNCHANGED <<fault, faults>>
          ELSE Raise(r, {"chunks"}, UnhandledException, local[r]) /\ Failing(1)
    /\ UNCHANGED <<memori_wrapper, request, storeVars, harnessVars>>

\* the backend answers: the rest of LocalLLMClient.chat and MemoriWrapper.chat,
\* then the handler up to its next suspension (chat_audio: synthesize_speech)
llm_returns(r) ==
    /\ pc[r] = "in_llm"
    /\ loop = {r}
    /\ LET call == local[r].llm_calls[Len(local[r].llm_calls)]
       IN  \E outcome \in BackendOutcomes(call.backend), insert_ok \in BOOLEAN,
              tts_ok \in BOOLEAN :
              LET answer == BackendChat(call.backend, outcome)
                  result == LocalLLMClient_result(local[r].model_choice, answer)
                  stored == MemoriWrapper_store(memori_messages, r, request[r].user_id,
                                                local[r].session_id,
                                                local[r].text_with_context,
                                                result, insert_ok)
                  loc == [local[r] EXCEPT !.result = result, !.backend_outcome = outcome]
                  caught == IF stored.insert_failed THEN {"memori_insert"} ELSE {}
              IN  /\ Failing((IF outcome = "ok" THEN 0 ELSE 1)
                              + (IF stored.insert_failed THEN 1 ELSE 0)
                              + (IF ~stored.raised /\ request[r].kind = "audio" /\ ~tts_ok
                                 THEN 1 ELSE 0))
                  /\ memori_messages' = stored.db
                  /\ IF stored.raised
                     THEN Raise(r, {"llm"}, UnhandledException, loc)
                     ELSE IF request[r].kind = "audio" /\ ~tts_ok
                     THEN Raise(r, caught \cup {"tts"}, TtsFailure, loc)
                     ELSE /\ pc' = [pc EXCEPT ![r] = "await_user_message"]
                          /\ local' = [local EXCEPT ![r] =
                                          IF request[r].kind = "audio"
                                          THEN [loc EXCEPT !.audio_base64 = "UklGRg=="]
                                          ELSE loc]
                          /\ loop' = {}
                          /\ fault' = [fault EXCEPT ![r] = @ \cup caught]
                          /\ UNCHANGED response
    /\ UNCHANGED <<memori_wrapper, request, sessions, messages, documents, chunks_col,
                   harnessVars>>

\* await messages_col.insert_one(user_msg) returns or raises
user_message_inserted(r) ==
    /\ pc[r] = "await_user_message"
    /\ loop = {}
    /\ \E ok \in BOOLEAN :
          IF ok
          THEN /\ messages' = Append(messages, UserMessage(r, local[r]))
               /\ pc' = [pc EXCEPT ![r] = "await_assistant_message"]
               /\ UNCHANGED <<local, loop, fault, response, faults>>
          ELSE /\ Raise(r, {"user_message"}, UnhandledException, local[r])
               /\ Failing(1)
               /\ UNCHANGED messages
    /\ UNCHANGED <<memori_wrapper, request, sessions, memori_messages, documents,
                   chunks_col, harnessVars>>

\* await messages_col.insert_one(assistant_msg) returns or raises
assistant_message_inserted(r) ==
    /\ pc[r] = "await_assistant_message"
    /\ loop = {}
    /\ \E ok \in BOOLEAN :
          IF ok
          THEN /\ messages' = Append(messages, AssistantMessage(r, local[r]))
               /\ pc' = [pc EXCEPT ![r] = "await_session_update"]
               /\ UNCHANGED <<local, loop, fault, response, faults>>
          ELSE /\ Raise(r, {"assistant_message"}, UnhandledException, local[r])
               /\ Failing(1)
               /\ UNCHANGED messages
    /\ UNCHANGED <<memori_wrapper, request, sessions, memori_messages, documents,
                   chunks_col, harnessVars>>

\* await sessions_col.update_one(...) returns or raises; then the response
session_updated(r) ==
    /\ pc[r] = "await_session_update"
    /\ loop = {}
    /\ \E ok \in BOOLEAN :
          IF ok
          THEN /\ sessions' = TouchSession(sessions, local[r].session_id)
               /\ Finish(r, IF request[r].kind = "audio"
                            THEN AudioChatResponse(local[r])
                            ELSE TextChatResponse(local[r]),
                         local[r])
               /\ UNCHANGED <<fault, faults>>
          ELSE /\ Raise(r, {"session_update"}, UnhandledException, local[r])
               /\ Failing(1)
               /\ UNCHANGED sessions
    /\ UNCHANGED <<memori_wrapper, request, messages, memori_messages, documents,
                   chunks_col, harnessVars>>

-----------------------------------------------------------------------------
(* The handlers from retrieval to the call of the backend, on their own:    *)
(* uploads of one user fill the chunk store beyond the retrieval limit, and *)
(* either handler retrieves for an utterance, builds the text with context  *)
(* and hands it to the wrapper.                                             *)

MaxContextUploads == 6

\* two one-chunk documents that share the keyword "kahani"
ContextDocuments ==
    { <<"K","a","h","a","n","i",":"," ","t","h","e"," ","c","o","d","e",".">>,
      <<"e","k"," ","a","u","r"," ","k","a","h","a","n","i">> }

\* utterances without a keyword, with a keyword of both documents, with keywords of
\* one document each, and with a keyword that no document holds
ContextUtterances ==
    { <<"a","u","r"," ","k","y","a">>,
      <<"k","a","h","a","n","i"," ","s","u","n","a","o">>,
      <<"c","o","d","e"," ","k","y","a">>,
      <<"g","a","a","n","a"," ","s","u","n","a","o">> }

\* an upload of the user that succeeded; the store is followed up to the turn that
\* is looked at, not beyond it
ContextUpload ==
    /\ ~rv_call.made
    /\ Cardinality(StoredDocuments(rv_store)) < MaxContextUploads
    /\ \E text \in ContextDocuments :
          rv_store' = rv_store \o
              ChunkRecords(Cardinality(StoredDocuments(rv_store)) + 1, "alice",
                           chunk_text(text, MAX_CHUNK_SIZE, DefaultOverlap))
    /\ UNCHANGED <<rv_call, routerVars, chunkVars, translateVars, wrapperVars, pipelineVars>>

\* chat_text or chat_audio from get_relevant_chunks to the call of the backend in
\* LocalLLMClient.chat: the chunks read, the text with context, the messages sent
ContextCall ==
    /\ \E kind \in {"text", "audio"}, user_text \in ContextUtterances :
          LET got == get_relevant_chunks(rv_store, "alice", user_text, RetrievalLimit)
              loc == [NoLocal EXCEPT !.user_text = user_text, !.lang = "hi",
                                     !.chunks = got.chunks]
              called == CallWrapper(kind, loc).local
          IN  rv_call' = [made |-> TRUE, owner |-> "alice", query |-> user_text,
                          limit |-> RetrievalLimit, store |-> rv_store,
                          find_called |-> got.find_called, raised |-> got.raised,
                          docs |-> got.docs, chunks |-> got.chunks,
                          kind |-> kind, llm_calls |-> called.llm_calls]
    /\ UNCHANGED <<rv_store, routerVars, chunkVars, translateVars, wrapperVars, pipelineVars>>

-----------------------------------------------------------------------------
(* routes_files.upload_file and save_uploaded_file step by step: the        *)
(* document insert, the insert of its chunk records and the count for the   *)
(* response are three awaits, so that two uploads interleave.               *)

\* the text parse_file extracts: nothing, white space only, one chunk, and a text
\* of 2002 characters that chunk_size 1024 and overlap 128 cut into three chunks
UploadTexts ==
    { <<>>,
      <<" ", "\n">>,
      <<"e","k"," ","k","a","h","a","n","i",".">>,
      Repeat("a", 1000) \o <<".", " ">> \o Repeat("b", 1000) }

UploadFailed == HTTPException(500, "Upload failed")

ParseFailed == HTTPException(400, "Failed to parse file")

UploadResponse(document_id, chunk_count) ==
    [status |-> 200, detail |-> "",
     body |-> [document_id |-> document_id, chunks |-> chunk_count]]

\* chunks_col.count_documents({"document_id": str(document_id)})
ChunkCount(col, document_id) ==
    Cardinality({i \in 1..Len(col) : col[i].document_id = document_id})

\* upload_file from its entry to the first await on the store: the file is
\* written, parsed and chunked; a file parse_file rejects ends the request
save_uploaded_file(r) ==
    /\ pc[r] = "idle"
    /\ \A q \in Requests : q < r => pc[q] # "idle"
    /\ \E user_id \in Users, text \in UploadTexts, parse_ok \in BOOLEAN :
          /\ request' = [request EXCEPT ![r] =
                            [kind |-> "upload", user_id |-> user_id,
                             session_id |-> NoSession]]
          /\ IF parse_ok
             THEN /\ pc' = [pc EXCEPT ![r] = "await_document_insert"]
                  /\ local' = [local EXCEPT ![r] =
                                  [chunks |-> chunk_text(text, MAX_CHUNK_SIZE,
                                                         DefaultOverlap),
                                   document_id |-> 0, chunk_records |-> <<>>]]
                  /\ UNCHANGED response
             ELSE /\ pc' = [pc EXCEPT ![r] = "done"]
                  /\ response' = [response EXCEPT ![r] = ParseFailed]
                  /\ UNCHANGED local
    /\ UNCHANGED <<memori_wrapper, loop, fault, storeVars, faults, harnessVars>>

\* await documents_col.insert_one(document_record) returns or raises; then the
\* chunk records are built
document_inserted(r) ==
    /\ pc[r] = "await_document_insert"
    /\ \E ok \in BOOLEAN :
          IF ok
          THEN LET document_id == Len(documents) + 1
                   chunk_records == ChunkRecords(document_id, request[r].user_id,
                                                 local[r].chunks)
               IN  /\ documents' = Append(documents,
                                          [id |-> document_id,
                                           user_id |-> request[r].user_id])
                   /\ local' = [local EXCEPT ![r].document_id = document_id,
                                             ![r].chunk_records = chunk_records]
                   /\ pc' = [pc EXCEPT ![r] = IF chunk_records # <<>>
                                              THEN "await_chunk_insert"
                                              ELSE "await_chunk_count"]
                   /\ UNCHANGED response
          ELSE /\ pc' = [pc EXCEPT ![r] = "done"]
               /\ response' = [response EXCEPT ![r] = UploadFailed]
               /\ UNCHANGED <<documents, local>>
    /\ UNCHANGED <<memori_wrapper, loop, request, fault, sessions, messages,
                   memori_messages, chunks_col, faults, harnessVars>>

\* await chunks_col.insert_many(chunk_records) returns, or raises after the first
\* `written` records went in (an ordered insert stops at the first error)
chunks_inserted(r) ==
    /\ pc[r] = "await_chunk_insert"
    /\ \E written \in 0..Len(local[r].chunk_records) :
          /\ chunks_col' = chunks_col \o SubSeq(local[r].chunk_records, 1, written)
          /\ IF written = Len(local[r].chunk_records)
             THEN /\ pc' = [pc EXCEPT ![r] = "await_chunk_count"]
                  /\ UNCHANGED response
             ELSE /\ pc' = [pc EXCEPT ![r] = "done"]
                  /\ response' = [response EXCEPT ![r] = UploadFailed]
    /\ UNCHANGED <<memori_wrapper, loop, request, local, fault, sessions, messages,
                   memori_messages, documents, faults, harnessVars>>

\* await chunks_col.count_documents(...) returns or raises; then the response
chunks_counted(r) ==
    /\ pc[r] = "await_chunk_count"
    /\ \E ok \in BOOLEAN :
          /\ pc' = [pc EXCEPT ![r] = "done"]
          /\ response' = [response EXCEPT ![r] =
                             IF ok
                             THEN UploadResponse(local[r].document_id,
                                                 ChunkCount(chunks_col,
                                                            local[r].document_id))
                             ELSE UploadFailed]
    /\ UNCHANGED <<memori_wrapper, loop, request, local, fault, storeVars, faults,
                   harnessVars>>

-----------------------------------------------------------------------------
(* api/routes_translate.py: translate_text has no await, so that a request  *)
(* is one uninterrupted stretch.  lifespan sets routes_translate._llm_client *)
(* in the same stretch as routes_chat._memori_wrapper, so that one is None  *)
(* exactly when the other is.                                               *)

\* TranslationRequest.text, .source_lang and .target_lang
TranslationTexts ==
    { <<"H","e","l","l","o">>,
      <<"e","x","p","l","a","i","n"," ","c","o","d","e">> }

TranslationLangs == {"en", "hi"}

LlmClientNotInitialized == HTTPException(500, "LLM client not initialized")

TranslationFailed == HTTPException(500, "Translation failed")

TranslationResponse(loc) ==
    [status |-> 200, detail |-> "",
     body |-> [input_text |-> loc.text, translated_text |-> loc.translated_text,
               source_lang |-> loc.source_lang, target_lang |-> loc.target_lang,
               audio_base64 |-> loc.audio_base64]]

\* a handler that synthesizes speech whether or not the request asks for it
TranslateSpeech_unasked(tts, tts_ok) ==
    [tts_calls |-> 1,
     audio_base64 |-> IF tts_ok THEN "UklGRg==" ELSE "None",
     failed |-> ~tts_ok]

\* "Generate TTS if requested": synthesize_speech is called only when request.tts
\* is set, and its exception is caught and printed
TranslateSpeech(tts, tts_ok) ==
    [tts_calls |-> IF tts THEN 1 ELSE 0,
     audio_base64 |-> IF tts /\ tts_ok THEN "UklGRg==" ELSE "None",
     failed |-> tts /\ ~tts_ok]

\* POST /translate, from the request to the response
translate_text(r) ==
    /\ pc[r] = "idle"
    /\ \A q \in Requests : q < r => pc[q] # "idle"
    /\ loop = {}
    /\ \E text \in TranslationTexts, source_lang \in TranslationLangs,
          target_lang \in TranslationLangs, tts \in BOOLEAN :
          LET call == LocalLLMClient_translate(text, source_lang, target_lang)
              asked == [text |-> text, source_lang |-> source_lang,
                        target_lang |-> target_lang, tts |-> tts,
                        llm_calls |-> <<>>, backend_outcome |-> "none",
                        translated_text |-> <<>>, tts_calls |-> 0,
                        audio_base64 |-> "None"]
          IN  /\ request' = [request EXCEPT ![r] =
                                [kind |-> "translate", user_id |-> "",
                                 session_id |-> NoSession]]
              /\ IF memori_wrapper = "None"
                 THEN /\ Finish(r, LlmClientNotInitialized, asked)
                      /\ UNCHANGED <<fault, faults>>
                 ELSE \E outcome \in BackendOutcomes(call.backend), tts_ok \in BOOLEAN :
                         LET answer == BackendChat(call.backend, outcome)
                             speech == TranslateSpeech(tts, tts_ok)
                             called == [asked EXCEPT !.llm_calls = <<call>>,
                                                     !.backend_outcome = outcome]
                             spoken == [called EXCEPT
                                           !.translated_text = answer.value,
                                           !.tts_calls = speech.tts_calls,
                                           !.audio_base64 = speech.audio_base64]
                         IN  IF answer.raised
                             THEN Raise(r, {"llm"}, TranslationFailed, called)
                                  /\ Failing(1)
                             ELSE /\ Finish(r, TranslationResponse(spoken), spoken)
                                  /\ fault' = [fault EXCEPT ![r] =
                                                  IF speech.failed THEN {"tts"} ELSE {}]
                                  /\ Failing((IF outcome = "ok" THEN 0 ELSE 1)
                                             + (IF speech.failed THEN 1 ELSE 0))
    /\ UNCHANGED <<memori_wrapper, storeVars, harnessVars>>

-----------------------------------------------------------------------------
(* The specifications                                                      *)

\* one stretch of handler r
Step(r) ==
    \/ chat_text(r)
    \/ chat_audio(r)
    \/ session_inserted(r)
    \/ chunks_returned(r)
    \/ llm_returns(r)
    \/ user_message_inserted(r)
    \/ assistant_message_inserted(r)
    \/ session_updated(r)

Init ==
    /\ InitPipelineVars
    /\ IdleRouterVars
    /\ IdleRetrieveVars
    /\ IdleChunkVars
    /\ IdleTranslateVars
    /\ IdleWrapperVars

Next ==
    \/ lifespan
    \/ \E user_id \in Users, text \in DocumentTexts : upload_file(user_id, text)
    \/ \E r \in Requests : Step(r)

Spec == Init /\ [][Next]_vars

InitRouter ==
    /\ InitRouterVars
    /\ InitPipelineVars
    /\ IdleRetrieveVars
    /\ IdleChunkVars
    /\ IdleTranslateVars
    /\ IdleWrapperVars

NextRouter == RouterCall /\ UNCHANGED pipelineVars

SpecRouter == InitRouter /\ [][NextRouter]_vars

InitRetrieve ==
    /\ InitPipelineVars
    /\ IdleRouterVars
    /\ IdleRetrieveVars
    /\ IdleChunkVars
    /\ IdleTranslateVars
    /\ IdleWrapperVars

NextRetrieve == RetrieveUpload \/ RetrieveCall

SpecRetrieve == InitRetrieve /\ [][NextRetrieve]_vars

InitChunk ==
    /\ InitPipelineVars
    /\ IdleRouterVars
    /\ IdleRetrieveVars
    /\ IdleChunkVars
    /\ IdleTranslateVars
    /\ IdleWrapperVars

NextChunk == ChunkEnter \/ ChunkPass \/ ChunkReturn

SpecChunk == InitChunk /\ [][NextChunk]_vars

\* a call of chunk_text that is running keeps running
SpecChunkLive == SpecChunk /\ WF_vars(NextChunk)

InitTranslate ==
    /\ InitPipelineVars
    /\ IdleRouterVars
    /\ IdleRetrieveVars
    /\ IdleChunkVars
    /\ IdleTranslateVars
    /\ IdleWrapperVars

NextTranslate == TranslateCall

SpecTranslate == InitTranslate /\ [][NextTranslate]_vars

InitUpload ==
    /\ InitPipelineVars
    /\ IdleRouterVars
    /\ IdleRetrieveVars
    /\ IdleChunkVars
    /\ IdleTranslateVars
    /\ IdleWrapperVars

NextUpload ==
    \/ \E r \in Requests : save_uploaded_file(r)
    \/ \E r \in Requests : document_inserted(r)
    \/ \E r \in Requests : chunks_inserted(r)
    \/ \E r \in Requests : chunks_counted(r)

SpecUpload == InitUpload /\ [][NextUpload]_vars

InitContext ==
    /\ InitPipelineVars
    /\ IdleRouterVars
    /\ IdleRetrieveVars
    /\ IdleChunkVars
    /\ IdleTranslateVars
    /\ IdleWrapperVars

NextContext == ContextUpload \/ ContextCall

SpecContext == InitContext /\ [][NextContext]_vars

\* the translation handler and the injection it waits for
NextTranslateRoute ==
    \/ lifespan
    \/ \E r \in Requests : translate_text(r)

SpecTranslateRoute == Init /\ [][NextTranslateRoute]_vars

\* the service from its start: the injection, the chat and the translation handlers,
\* and calls of get_memori_wrapper
NextService ==
    \/ lifespan
    \/ WrapperCall
    \/ \E r \in Requests : Step(r)
    \/ \E r \in Requests : translate_text(r)

SpecService == Init /\ [][NextService]_vars

-----------------------------------------------------------------------------
(* Properties                                                              *)

Routed(r) == local[r].model_choice # "none"

TurnRecords(col, r) == {i \in 1..Len(col) : col[i].turn = r}

\* the turn wrote no history record: no Memori exchange, no user or assistant message
NoHistory(r) ==
    /\ TurnRecords(memori_messages, r) = {}
    /\ TurnRecords(messages, r) = {}

\* C1: in every chat turn the model class used equals choose(original utterance,
\* language): routing is decided on the utterance without the document context, so
\* the retrieved chunks never change the backend.
C1_RoutedOnOriginalUtterance ==
    \A r \in Requests :
        Routed(r) => local[r].model_choice = choose_model(local[r].user_text, local[r].lang)

\* C2: when the model backend call fails, the turn ends with an error response and
\* no history record of the turn exists: neither the Memori exchange nor the user or
\* assistant message.
C2_ModelFailureLeavesNoHistory ==
    \A r \in Requests :
        "llm" \in fault[r] =>
            /\ pc[r] = "done"
            /\ response[r].status >= 400
            /\ NoHistory(r)

\* C2 witness: a turn whose model call failed has ended, after its session record
\* was created.
C2_Witness ==
    \E r \in Requests :
        /\ "llm" \in fault[r]
        /\ pc[r] = "done"
        /\ local[r].result.raised
        /\ TurnRecords(sessions, r) # {}

\* C3: in the audio path, when speech synthesis fails after the reply was generated,
\* the request still ends with a success response that carries the reply text, the
\* audio payload being null.
C3_TtsFailureStillSucceeds ==
    \A r \in Requests :
        ("tts" \in fault[r] /\ pc[r] = "done") =>
            /\ response[r].status = 200
            /\ response[r].body.assistant_text = local[r].result.reply
            /\ response[r].body.audio_base64 = "None"

\* C4: in the audio path, when speech-to-text fails, the caller gets a client error
\* that names the decode failure and that no model or synthesis failure produces,
\* and the turn reaches neither session creation, retrieval, the model call nor
\* recording: it leaves no session, exchange or message record.
C4_SttFailureIsDistinctAndClean ==
    \A r \in Requests :
        /\ "stt" \in fault[r] =>
              /\ pc[r] = "done"
              /\ response[r].status \in 400..499
              /\ response[r].detail = "STT error"
              /\ local[r].session_id = NoSession
              /\ local[r].chunks = <<>>
              /\ local[r].llm_calls = <<>>
              /\ TurnRecords(sessions, r) = {}
              /\ NoHistory(r)
        /\ (fault[r] \cap {"llm", "tts"} # {}) =>
              /\ response[r].status \notin 400..499
              /\ response[r].detail # "STT error"

\* C4 witness: an audio turn ended on an STT failure while the store already holds
\* the session of another turn.
C4_Witness ==
    \E r \in Requests :
        /\ request[r].kind = "audio"
        /\ "stt" \in fault[r]
        /\ pc[r] = "done"
        /\ sessions # <<>>

\* C5: when the chunk store lookup raises, the turn goes on as if no chunk had been
\* found: the model is called with the utterance alone and the caller gets a normal
\* reply; a retrieval failure never aborts the turn.
C5_RetrievalFailureNeverAborts ==
    \A r \in Requests :
        ("chunks" \in fault[r] /\ pc[r] = "done") =>
            /\ Len(local[r].llm_calls) = 1
            /\ local[r].text_with_context = local[r].user_text
            /\ (fault[r] = {"chunks"} => response[r].status = 200)

\* C6: when writing a history record fails after the reply was generated (the Memori
\* insert, the user message insert, the assistant message insert or the session
\* update), the failure is not surfaced: the caller still gets the success response
\* with the reply text.
C6_RecordingFailureNotSurfaced ==
    \A r \in Requests :
        ( /\ pc[r] = "done"
          /\ fault[r] # {}
          /\ fault[r] \subseteq {"memori_insert", "user_message", "assistant_message",
                                 "session_update"} ) =>
            /\ response[r].status = 200
            /\ response[r].body.assistant_text = local[r].result.reply

\* the text holds the keyword somewhere, letter case apart
HoldsKeyword(text, keyword) ==
    \E a \in 1..Len(text) :
        /\ a + Len(keyword) - 1 <= Len(text)
        /\ \A k \in 1..Len(keyword) : LowerChar(text[a + k - 1]) = keyword[k]

\* C7: choose(text, lang) is Light exactly when the text has at most 300 characters,
\* its lower-cased form holds none of the heavy keywords, and lang is one of the ten
\* regional codes; in every other case it is Heavy.
C7_RouterDecisionTable ==
    \A i \in 1..Len(rt_calls) :
        LET c == rt_calls[i]
            light == /\ Len(c.text) <= 300
                     /\ ~\E k \in 1..Len(HEAVY_KEYWORDS) : HoldsKeyword(c.text, HEAVY_KEYWORDS[k])
                     /\ c.lang \in {"hi", "bn", "mr", "ta", "te", "gu", "kn", "ml", "or", "pa"}
        IN  c.decision = IF light THEN "light" ELSE "heavy"

\* C7 witness: a regional-language text of exactly 300 characters was routed Light,
\* and a short regional-language text with a keyword was routed Heavy.
C7_Witness ==
    /\ \E i \in 1..Len(rt_calls) :
          /\ Len(rt_calls[i].text) = 300
          /\ rt_calls[i].lang \in INDIC_LANGS
          /\ rt_calls[i].decision = "light"
    /\ \E i \in 1..Len(rt_calls) :
          /\ Len(rt_calls[i].text) < 300
          /\ rt_calls[i].lang \in INDIC_LANGS
          /\ rt_calls[i].decision = "heavy"

C9_OneCallToTheRoutedBackend ==
    \A r \in Requests :
        /\ Len(local[r].llm_calls) <= 1
        /\ Routed(r) =>
              /\ Len(local[r].llm_calls) = 1
              /\ local[r].model_choice =
                    choose_model(local[r].llm_calls[1].messages[2].content, local[r].lang)
              /\ local[r].llm_calls[1].backend =
                    IF local[r].model_choice = "light" THEN "sarvam" ELSE "llama"
              /\ local[r].result.model_used \in
                    {"none", IF local[r].model_choice = "light"
                             THEN "sarvam-1" ELSE "llama-3.1-8b"}
              /\ response[r].status = 200 =>
                    response[r].body.model_used =
                        IF local[r].model_choice = "light" THEN "sarvam-1" ELSE "llama-3.1-8b"

\* C9 witness: a turn routed Light ended on a failure of the Sarvam call, which was
\* its only backend call.
C9_Witness ==
    \E r \in Requests :
        /\ pc[r] = "done"
        /\ local[r].model_choice = "light"
        /\ "llm" \in fault[r]
        /\ Len(local[r].llm_calls) = 1
        /\ local[r].llm_calls[1].backend = "sarvam"

Suspended(r) ==
    pc[r] \in {"await_session_insert", "await_chunks", "await_user_message",
               "await_assistant_message", "await_session_update"}

\* C10: model backend calls of different requests can be in flight together: while
\* one request waits in a model call, every other request whose awaited store
\* answer is there can go on with its own steps.
C10_ModelCallDoesNotBlockOthers ==
    \A r, q \in Requests :
        (pc[r] = "in_llm" /\ q # r /\ Suspended(q)) => ENABLED Step(q)


\* the backend did not produce a reply: it refused the connection, answered with a
\* non-2xx status or a body that is not JSON, or answered without content
BackendFailed(r) == local[r].backend_outcome \notin {"none", "ok"}

\* C11: every kind of backend failure (refused connection, non-2xx status, malformed
\* or empty answer) is surfaced as an error that names the backend; none becomes a
\* reply string, empty or canned, that the turn records and returns as success.
C11_BackendFailureIsAnError ==
    \A r \in Requests :
        BackendFailed(r) =>
            /\ local[r].result.raised
            /\ local[r].result.error # ""
            /\ TurnRecords(memori_messages, r) = {}
            /\ response[r].status # 200


\* the query has a run of more than three characters without white space
HasLongToken(query) ==
    \E i \in 1..(Len(query) - 3) : \A k \in 0..3 : ~IsSpace(query[i + k])

\* C12: retrieve returns the empty sequence, without querying the chunk store,
\* whenever no white-space separated token of the query is longer than 3 characters
\* (the empty query included), whatever the store holds.
C12_NoKeywordNoQuery ==
    (rv_call.made /\ ~HasLongToken(rv_call.query)) =>
        /\ ~rv_call.find_called
        /\ ~rv_call.raised
        /\ rv_call.chunks = <<>>

\* C12 witness: a query of three-letter words was answered while the store held a
\* chunk of the owner with one of these words in it.
C12_Witness ==
    /\ rv_call.made
    /\ rv_call.query = <<"a","u","r"," ","k","y","a">>
    /\ rv_call.chunks = <<>>
    /\ \E i \in 1..Len(rv_call.store) :
          /\ rv_call.store[i].user_id = rv_call.owner
          /\ In(<<"k","y","a">>, rv_call.store[i].text)

\* C13: after any uploads by any users, every chunk text retrieve returns belongs to
\* a chunk record of the store whose owner is the requested owner; a chunk of
\* another owner is never returned, whatever the query.
C13_OnlyTheOwnersChunks ==
    rv_call.made =>
        /\ Len(rv_call.chunks) = Len(rv_call.docs)
        /\ \A i \in 1..Len(rv_call.docs) :
              /\ rv_call.chunks[i] = rv_call.docs[i].text
              /\ rv_call.docs[i].user_id = rv_call.owner
              /\ \E j \in 1..Len(rv_call.store) : rv_call.store[j] = rv_call.docs[i]

\* C13 witness: a chunk was returned to its owner while another user's chunk with
\* the same text was in the store.
C13_Witness ==
    /\ rv_call.made
    /\ rv_call.chunks # <<>>
    /\ \E j \in 1..Len(rv_call.store) :
          /\ rv_call.store[j].user_id # rv_call.owner
          /\ rv_call.store[j].text = rv_call.chunks[1]

\* the keywords as the claim counts them: the tokens longer than 3 characters
LongTokens(query) ==
    LET words == Split(query)
    IN  SelectSeqOf(words, {w \in {words[i] : i \in 1..Len(words)} : Len(w) > 3})

\* the chunk text holds the keyword as a literal substring, letter case apart
HoldsLiterally(text, keyword) ==
    \E a \in 0..(Len(text) - Len(keyword)) :
        \A k \in 1..Len(keyword) : LowerChar(text[a + k]) = LowerChar(keyword[k])

\* C14: when the query has a keyword, retrieve returns at most `limit` chunk texts,
\* and a chunk of the owner is eligible exactly when its text holds, as a literal
\* substring letter case apart, one of the first five keywords; later keywords have
\* no influence and keyword characters are matched literally.
C14_LiteralSubstringMatch ==
    (rv_call.made /\ HasLongToken(rv_call.query)) =>
        LET tokens == LongTokens(rv_call.query)
            first5 == SubSeq(tokens, 1, Min(5, Len(tokens)))
            eligible == {j \in 1..Len(rv_call.store) :
                            /\ rv_call.store[j].user_id = rv_call.owner
                            /\ \E k \in 1..Len(first5) :
                                  HoldsLiterally(rv_call.store[j].text, first5[k])}
        IN  /\ ~rv_call.raised
            /\ Len(rv_call.chunks) <= rv_call.limit
            /\ Len(rv_call.chunks) = Min(rv_call.limit, Cardinality(eligible))
            /\ \A i \in 1..Len(rv_call.docs) :
                  \E j \in eligible : rv_call.store[j] = rv_call.docs[i]


\* the characters the i-th window took from the text
WindowSlice(i) == SubSeq(ck_text, ck_windows[i].from + 1, ck_windows[i].to)

HasInk(s) == \E k \in 1..Len(s) : ~IsSpace(s[k])

\* C15: no chunk chunk_text emits is empty or begins or ends with white space, a
\* window of white space only emits nothing, and the empty text gives no chunk.
C15_ChunksAreTrimmed ==
    /\ \A i \in 1..Len(ck_chunks) :
          /\ ck_chunks[i] # <<>>
          /\ ~IsSpace(ck_chunks[i][1])
          /\ ~IsSpace(ck_chunks[i][Len(ck_chunks[i])])
    /\ Len(ck_chunks) = Cardinality({i \in 1..Len(ck_windows) : HasInk(WindowSlice(i))})
    /\ (ck_text = <<>> /\ ck_pc # "idle") =>
          ck_pc = "returned" /\ ck_chunks = <<>>

\* C15 witness: a call returned after one window of white space only was skipped and
\* a chunk was emitted from a window that began or ended with white space.
C15_Witness ==
    /\ ck_pc = "returned"
    /\ \E i \in 1..Len(ck_windows) : WindowSlice(i) # <<>> /\ ~HasInk(WindowSlice(i))
    /\ \E i \in 1..Len(ck_windows) :
          /\ HasInk(WindowSlice(i))
          /\ IsSpace(WindowSlice(i)[Len(WindowSlice(i))])

\* every character of the text that is not white space lies in a window
Covered ==
    \A k \in 1..Len(ck_text) :
        ~IsSpace(ck_text[k]) =>
            \E i \in 1..Len(ck_windows) :
                ck_windows[i].from < k /\ k <= ck_windows[i].to

C17_CursorAdvances ==
    [][ChunkPass => (ck_start' > ck_start /\ ck_start' <= Len(ck_text))]_vars

\* c is t without its leading and trailing white space
IsTrimOf(c, t) ==
    \E a \in 0..Len(t), b \in 0..Len(t) :
        /\ c = SubSeq(t, a + 1, b)
        /\ \A k \in 1..a : IsSpace(t[k])
        /\ \A k \in (b + 1)..Len(t) : IsSpace(t[k])
        /\ c # <<>> => (~IsSpace(c[1]) /\ ~IsSpace(c[Len(c)]))

\* C18: for a text no longer than chunk_size, chunk_text takes one window without a
\* search for a sentence end and returns the trimmed text as its only chunk, or no
\* chunk when the text is white space only.
C18_ShortTextIsOneChunk ==
    Len(ck_text) <= ck_chunk_size =>
        /\ Len(ck_windows) <= 1
        /\ \A i \in 1..Len(ck_windows) :
              /\ ~ck_windows[i].searched
              /\ ck_windows[i].from = 0 /\ ck_windows[i].to = Len(ck_text)
              /\ ck_start = Len(ck_text)
        /\ ck_pc = "returned" =>
              /\ Len(ck_chunks) <= 1
              /\ HasInk(ck_text) <=> Len(ck_chunks) = 1
              /\ \A i \in 1..Len(ck_chunks) : IsTrimOf(ck_chunks[i], ck_text)

\* C18 witness: a text no longer than chunk_size with a sentence end in its second
\* half came back as one chunk.
C18_Witness ==
    /\ ck_pc = "returned"
    /\ Len(ck_text) <= ck_chunk_size
    /\ Len(ck_chunks) = 1
    /\ \E i \in 1..(Len(ck_text) - 1) :
          /\ i - 1 > ck_chunk_size \div 2
          /\ ck_text[i] = "." /\ ck_text[i + 1] = " "


\* the ten regional language codes
RegionalCodes == {"hi", "bn", "mr", "ta", "te", "gu", "kn", "ml", "or", "pa"}

\* C19: translate calls the light (Sarvam) backend exactly when the source or the
\* target language is one of the ten regional codes and the heavy (Llama) backend
\* otherwise, whatever the text is; it calls exactly one backend, with one message
\* of role user.
C19_TranslateRoutesOnLanguagePair ==
    \A i \in 1..Len(tr_calls) :
        LET c == tr_calls[i]
            regional == c.source_lang \in RegionalCodes \/ c.target_lang \in RegionalCodes
        IN  /\ Len(c.backend_calls) = 1
            /\ c.backend_calls[1].backend = IF regional THEN "sarvam" ELSE "llama"
            /\ Len(c.backend_calls[1].messages) = 1
            /\ c.backend_calls[1].messages[1].role = "user"
            /\ \A text \in TranslateTexts :
                  LocalLLMClient_translate(text, c.source_lang, c.target_lang).backend
                      = c.backend_calls[1].backend

\* C19 witness: a text with a heavy keyword, from English into a regional language,
\* went to the light backend.
C19_Witness ==
    \E i \in 1..Len(tr_calls) :
        /\ HoldsKeyword(tr_calls[i].text, <<"c","o","d","e">>)
        /\ tr_calls[i].source_lang = "en"
        /\ tr_calls[i].target_lang \in RegionalCodes
        /\ tr_calls[i].backend_calls[1].backend = "sarvam"


\* C20: a chat request that supplies a session id creates no session record, and a
\* successful response carries that id; a request that supplies none creates exactly
\* one new session record, for its user, and the id of that record is the one the
\* turn's messages and Memori exchange are recorded under and the one returned.
C20_SessionSuppliedOrCreatedOnce ==
    \A r \in Requests :
        LET mine == TurnRecords(sessions, r)
        IN  /\ (request[r].kind # "none" /\ request[r].session_id = ClientSession) =>
                  /\ mine = {}
                  /\ response[r].status = 200 =>
                        response[r].body.session_id = ClientSession
            /\ (request[r].kind # "none" /\ request[r].session_id = NoSession) =>
                  /\ Cardinality(mine) <= 1
                  /\ \A i \in mine :
                        /\ sessions[i].user_id = request[r].user_id
                        /\ sessions[i].id = local[r].session_id
                        /\ sessions[i].id # ClientSession
                        /\ \A j \in 1..Len(sessions) :
                              j # i => sessions[j].id # sessions[i].id
                  /\ \A i \in TurnRecords(messages, r) :
                        mine # {} /\ messages[i].session_id = local[r].session_id
                  /\ \A i \in TurnRecords(memori_messages, r) :
                        mine # {} /\ memori_messages[i].session_id = local[r].session_id
                  /\ response[r].status = 200 =>
                        /\ Cardinality(mine) = 1
                        /\ response[r].body.session_id = local[r].session_id

\* C20 witness: one turn without a session id and one with the client's session id
\* have both succeeded, the first with its new session record and its messages.
C20_Witness ==
    \E r \in Requests, q \in Requests :
        /\ request[r].session_id = NoSession
        /\ response[r].status = 200
        /\ TurnRecords(sessions, r) # {}
        /\ TurnRecords(messages, r) # {}
        /\ TurnRecords(memori_messages, r) # {}
        /\ request[q].session_id = ClientSession
        /\ response[q].status = 200


\* the four sentence-ending delimiters, in the order the chunker tries them
Delimiters == << <<".", " ">>, <<"?", " ">>, <<"!", " ">>, <<"\n", "\n">> >>

\* the raw end of window i
RawEnd(i) == ck_windows[i].start + ck_chunk_size

\* the positions (from 0) in window i, before its raw end, where delimiter k stands
\* in the second half of the window
LateDelimiters(i, k) ==
    {p \in PyIndex(ck_windows[i].start, Len(ck_text))
              ..(PyIndex(RawEnd(i), Len(ck_text)) - 2) :
        /\ ck_text[p + 1] = Delimiters[k][1]
        /\ ck_text[p + 2] = Delimiters[k][2]
        /\ p > ck_windows[i].start + ck_chunk_size \div 2}

SetMax(S) == CHOOSE x \in S : \A y \in S : y <= x

\* C23 as stated: a window whose raw end falls before the end of the text ends just
\* after the delimiter nearest to the raw end among all delimiters, of any of the
\* four kinds, in the second half of the window, and at the raw end if there is none.
C23_NearestDelimiterOfAnyKind ==
    \A i \in 1..Len(ck_windows) :
        RawEnd(i) < Len(ck_text) =>
            LET late == UNION {LateDelimiters(i, k) : k \in 1..Len(Delimiters)}
            IN  ck_windows[i].end = IF late = {} THEN RawEnd(i) ELSE SetMax(late) + 2

\* the last position (from 0) in window i, before its raw end, where delimiter k
\* stands, and -1 when it stands nowhere in the window, as str.rfind answers
LastDelimiter(i, k) ==
    LET at == {p \in PyIndex(ck_windows[i].start, Len(ck_text))
                        ..(PyIndex(RawEnd(i), Len(ck_text)) - 2) :
                  /\ ck_text[p + 1] = Delimiters[k][1]
                  /\ ck_text[p + 2] = Delimiters[k][2]}
    IN  IF at = {} THEN -1 ELSE SetMax(at)

\* C23 amended: a window whose raw end falls before the end of the text ends just
\* after the last occurrence of the first kind of delimiter, in the order '. ',
\* '? ', '! ', blank line, whose last occurrence lies in the second half of the
\* window, even when a delimiter of a later kind stands nearer to the raw end; and
\* at the raw end if there is no such kind. The second half is judged on the
\* position rfind answers, so that once the cursor has fallen below
\* -(chunk_size // 2) - 1 the answer -1 of a kind that does not occur passes the
\* test as well, and the window ends at position 1.
C23_FirstKindOfDelimiter ==
    \A i \in 1..Len(ck_windows) :
        RawEnd(i) < Len(ck_text) =>
            LET kinds == {k \in 1..Len(Delimiters) :
                            LastDelimiter(i, k) > ck_windows[i].start + ck_chunk_size \div 2}
            IN  /\ ck_windows[i].end =
                       IF kinds = {} THEN RawEnd(i)
                       ELSE LastDelimiter(i, CHOOSE k \in kinds : \A j \in kinds : k <= j) + 2
                /\ ck_windows[i].start >= 0 =>
                       kinds = {k \in 1..Len(Delimiters) : LateDelimiters(i, k) # {}}

\* C23 witness: a call returned after a window ended behind a '. ' although a '? '
\* stood nearer to its raw end.
C23_Witness ==
    /\ ck_pc = "returned"
    /\ \E i \in 1..Len(ck_windows) :
          /\ RawEnd(i) < Len(ck_text)
          /\ LateDelimiters(i, 1) # {}
          /\ LateDelimiters(i, 2) # {}
          /\ SetMax(LateDelimiters(i, 2)) > SetMax(LateDelimiters(i, 1))
          /\ ck_windows[i].end = SetMax(LateDelimiters(i, 1)) + 2


\* C24: every chunk chunk_text emits has at most chunk_size characters: no window
\* takes more than chunk_size characters of the text, a break at a sentence end never
\* moves the end of a window past start + chunk_size, and a call that returns never
\* had its cursor below 0.
C24_ChunkWithinChunkSize ==
    /\ \A i \in 1..Len(ck_chunks) : Len(ck_chunks[i]) <= ck_chunk_size
    /\ \A i \in 1..Len(ck_windows) :
          /\ ck_windows[i].to - ck_windows[i].from <= ck_chunk_size
          /\ Len(ck_windows[i].chunk) <= ck_chunk_size
          /\ ck_windows[i].start >= 0 => ck_windows[i].end <= RawEnd(i)
          /\ ck_pc = "returned" => ck_windows[i].start >= 0

\* C24 witness: a call returned after a break at a sentence end shortened a window
\* and another window gave a chunk of exactly chunk_size characters.
C24_Witness ==
    /\ ck_pc = "returned"
    /\ \E i \in 1..Len(ck_windows) :
          ck_windows[i].searched /\ ck_windows[i].end < RawEnd(i)
    /\ \E i \in 1..Len(ck_chunks) : Len(ck_chunks[i]) = ck_chunk_size


\* the positions in the chunk store of the records of document d, in store order
RecordsOf(d) == {i \in 1..Len(chunks_col) : chunks_col[i].document_id = d}

\* upload r has inserted its document record
DocumentStored(r) ==
    /\ request[r].kind = "upload"
    /\ pc[r] \in {"await_chunk_insert", "await_chunk_count", "done"}
    /\ "document_id" \in DOMAIN local[r]

\* C25: after any uploads, the chunk records of each document carry the indices
\* 0, 1, ..., n-1, each once and in the order chunk_text emitted the chunks, and
\* every chunk record carries the id of its document and the user id of the
\* uploader; an upload answered with success has a record for every chunk.
C25_ChunkRecordsIndexed ==
    /\ \A i \in 1..Len(chunks_col) :
          \E d \in 1..Len(documents) :
              /\ documents[d].id = chunks_col[i].document_id
              /\ documents[d].user_id = chunks_col[i].user_id
    /\ \A d \in 1..Len(documents) :
          LET mine == RecordsOf(documents[d].id)
          IN  /\ {chunks_col[i].chunk_index : i \in mine} = 0..(Cardinality(mine) - 1)
              /\ \A i \in mine, j \in mine :
                    i < j <=> chunks_col[i].chunk_index < chunks_col[j].chunk_index
    /\ \A r \in Requests :
          DocumentStored(r) =>
              LET mine == RecordsOf(local[r].document_id)
              IN  /\ \A i \in mine :
                        /\ chunks_col[i].user_id = request[r].user_id
                        /\ chunks_col[i].chunk_index < Len(local[r].chunks)
                        /\ chunks_col[i].text = local[r].chunks[chunks_col[i].chunk_index + 1]
                  /\ (pc[r] = "done" /\ response[r].status = 200) =>
                        /\ Cardinality(mine) = Len(local[r].chunks)
                        /\ response[r].body.chunks = Len(local[r].chunks)

\* C25 witness: two uploads by different users have been answered with success,
\* one of them with three chunk records and the other with at least one.
C25_Witness ==
    \E r \in Requests, q \in Requests :
        /\ request[r].kind = "upload" /\ request[q].kind = "upload"
        /\ request[r].user_id # request[q].user_id
        /\ response[r].status = 200 /\ response[q].status = 200
        /\ Cardinality(RecordsOf(local[r].document_id)) = 3
        /\ Cardinality(RecordsOf(local[q].document_id)) >= 1


\* the stages of a turn, in the order the handlers go through them
StageOf(at) ==
    CASE at = "idle" -> 0
      [] at = "await_session_insert" -> 1
      [] at = "await_chunks" -> 2
      [] at = "in_llm" -> 3
      [] at = "await_user_message" -> 4
      [] at = "await_assistant_message" -> 5
      [] at = "await_session_update" -> 6
      [] at = "done" -> 7

ChatTurn(r) == request[r].kind \in {"text", "audio"}

\* the Memori step of the turn has been made: its record is there, or its insert
\* failed and was caught
MemoriStepMade(r) ==
    TurnRecords(memori_messages, r) # {} \/ "memori_insert" \in fault[r]

\* C22: in every turn the stages come in the order retrieval, routing, generation,
\* recording, response: the model is invoked only once retrieval has finished and
\* with what it returned, a history record of the turn exists only once the model
\* has returned a reply, the message records only after the Memori step, and a
\* success response only after both message records are written.
C22_StagesInOrder ==
    \A r \in Requests :
        ChatTurn(r) =>
            /\ local[r].llm_calls # <<>> =>
                  /\ StageOf(pc[r]) >= 3
                  /\ Routed(r)
                  /\ pc[r] = "in_llm" =>
                        local[r].chunks =
                            IF Keywords(local[r].user_text) = <<>> THEN <<>>
                            ELSE ChunkQuery(chunks_col, request[r].user_id,
                                            Keywords(local[r].user_text), RetrievalLimit)
            /\ local[r].chunks # <<>> => local[r].llm_calls # <<>>
            /\ ~NoHistory(r) =>
                  /\ StageOf(pc[r]) >= 4
                  /\ local[r].backend_outcome # "none"
                  /\ ~local[r].result.raised
                  /\ local[r].llm_calls # <<>>
            /\ TurnRecords(messages, r) # {} => MemoriStepMade(r)
            /\ response[r].status # 0 => pc[r] = "done"
            /\ response[r].status = 200 =>
                  /\ MemoriStepMade(r)
                  /\ \E i \in TurnRecords(messages, r), j \in TurnRecords(messages, r) :
                        /\ i < j
                        /\ messages[i].sender = "user"
                        /\ messages[j].sender = "assistant"

\* C22 witness: a turn that retrieved chunks, called the model and wrote its three
\* records has been answered with success.
C22_Witness ==
    \E r \in Requests :
        /\ ChatTurn(r)
        /\ response[r].status = 200
        /\ local[r].chunks # <<>>
        /\ TurnRecords(memori_messages, r) # {}
        /\ Cardinality(TurnRecords(messages, r)) = 2


\* the collection `after` is `before` with records appended at its end
Extends(before, after) ==
    /\ Len(after) >= Len(before)
    /\ SubSeq(after, 1, Len(before)) = before

\* C26: history is append-only: every step leaves the exchange records and the
\* message records that exist where and as they are and only adds records of its
\* own turn at the end; a turn writes its user message record before its assistant
\* message record.
C26_HistoryAppendOnly ==
    [][/\ Extends(memori_messages, memori_messages')
       /\ Extends(messages, messages')
       /\ \A r \in Requests :
             /\ \A i \in (Len(messages) + 1)..Len(messages') :
                   messages'[i].turn = r => pc[r] # "done" /\ pc[r] # "idle"
             /\ \A j \in TurnRecords(messages', r) :
                   messages'[j].sender = "assistant" =>
                       \E i \in TurnRecords(messages', r) :
                           i < j /\ messages'[i].sender = "user"]_vars

\* C26 witness: a second turn has written its exchange and both its messages behind
\* the three records of a first turn of the same session.
C26_Witness ==
    /\ Len(memori_messages) = 2
    /\ memori_messages[1].session_id = memori_messages[2].session_id
    /\ memori_messages[1].turn # memori_messages[2].turn
    /\ Len(messages) = 4
    /\ messages[1].turn = messages[2].turn
    /\ messages[3].turn = messages[4].turn
    /\ messages[1].turn # messages[3].turn


RECURSIVE BlankLineJoined(_, _)
\* the first n chunk texts, each two separated by a blank line
BlankLineJoined(chunks, n) ==
    IF n = 0 THEN <<>>
    ELSE IF n = 1 THEN chunks[1]
    ELSE BlankLineJoined(chunks, n - 1) \o <<"\n", "\n">> \o chunks[n]

\* the two openings of the bracketed annotation, of chat_text and of chat_audio
AnnotationOpenings ==
    { <<"\n","\n","[","C","o","n","t","e","x","t"," ","f","r","o","m"," ",
        "d","o","c","u","m","e","n","t","s",":"," ">>,
      <<"\n","\n","[","C","o","n","t","e","x","t",":"," ">> }

\* the positions in the store of the user's records that hold a keyword of the query
MatchingRecords(store, owner, query) ==
    {i \in 1..Len(store) :
        /\ store[i].user_id = owner
        /\ \E k \in 1..Len(LongTokens(query)) :
               HoldsLiterally(store[i].text, LongTokens(query)[k])}

\* C27: the text sent to the model as the user turn is the original utterance
\* exactly when retrieval returned no chunks; otherwise it is the utterance followed
\* by one bracketed annotation that holds the texts of the chunks, joined by a blank
\* line, in the order of the store, and at most 5 of them: the first 5 that match.
C27_ContextAnnotation ==
    rv_call.made =>
        LET sent == rv_call.llm_calls[1].messages
            user_turn == sent[Len(sent)].content
            n == Len(rv_call.chunks)
            matching == MatchingRecords(rv_call.store, rv_call.owner, rv_call.query)
        IN  /\ Len(rv_call.llm_calls) = 1
            /\ sent[Len(sent)].role = "user"
            /\ (user_turn = rv_call.query) <=> (n = 0)
            /\ n <= 5
            /\ n = Min(5, Cardinality(matching))
            /\ \A i \in 1..n :
                  \E p \in matching :
                      /\ rv_call.store[p].text = rv_call.chunks[i]
                      /\ Cardinality({q \in matching : q < p}) = i - 1
            /\ n > 0 =>
                  \E opening \in AnnotationOpenings :
                      user_turn = rv_call.query \o opening
                                      \o BlankLineJoined(rv_call.chunks, n) \o <<"]">>

\* C27 witness: with six matching chunks of two different texts in the store, the
\* audio handler sent the utterance with the first five of them.
C27_Witness ==
    /\ rv_call.made
    /\ rv_call.kind = "audio"
    /\ Cardinality(MatchingRecords(rv_call.store, rv_call.owner, rv_call.query)) = 6
    /\ Len(rv_call.chunks) = 5
    /\ \E i \in 1..4 : rv_call.chunks[i] # rv_call.chunks[i + 1]


\* the turn's exchange record and its user and assistant message records all exist
FullHistory(r) ==
    /\ TurnRecords(memori_messages, r) # {}
    /\ \E i \in TurnRecords(messages, r) : messages[i].sender = "user"
    /\ \E i \in TurnRecords(messages, r) : messages[i].sender = "assistant"

\* C28: recording is all-or-nothing with respect to the outcome the caller sees: a
\* chat turn that has been answered either got a success response and its exchange
\* record and both message records exist, or got an error response and none of its
\* history records exists.
C28_RecordingAllOrNothing ==
    \A r \in Requests :
        (ChatTurn(r) /\ pc[r] = "done") =>
            \/ response[r].status = 200 /\ FullHistory(r)
            \/ response[r].status # 200 /\ NoHistory(r)


\* the text holds the opening of a context annotation somewhere
HoldsAnnotation(text) ==
    \E a \in 0..(Len(text) - 10) :
        SubSeq(text, a + 1, a + 10) = <<"\n","\n","[","C","o","n","t","e","x","t">>

\* the utterance the caller made in turn r: the text of a text request, the
\* transcript of an audio request
Utterance(r) == local[r].user_text

\* C29: every history record of a turn stores the user's original utterance as the
\* user text: the user_message of the Memori exchange record, the text of the user
\* message record and user_text of the response all equal the utterance, and none
\* of them holds the context annotation.
C29_HistoryStoresTheUtterance ==
    \A r \in Requests :
        ChatTurn(r) =>
            /\ \A i \in TurnRecords(memori_messages, r) :
                  /\ memori_messages[i].user_message = Utterance(r)
                  /\ ~HoldsAnnotation(memori_messages[i].user_message)
            /\ \A i \in TurnRecords(messages, r) :
                  messages[i].sender = "user" =>
                      /\ messages[i].text = Utterance(r)
                      /\ ~HoldsAnnotation(messages[i].text)
            /\ response[r].status = 200 =>
                  /\ response[r].body.user_text = Utterance(r)
                  /\ ~HoldsAnnotation(response[r].body.user_text)


TranslateRequest(r) == request[r].kind = "translate" /\ pc[r] = "done"

\* the translation model call of request r was made and raised
TranslationCallFailed(r) ==
    /\ local[r].llm_calls # <<>>
    /\ \/ local[r].backend_outcome \in {"connect_error", "http_status_error",
                                        "invalid_body"}
       \/ (local[r].llm_calls[1].backend = "sarvam" /\ local[r].backend_outcome = "error")

\* C21: on the translation endpoint a TTS failure with tts=true does not fail the
\* request: the response is a success with the translated text and audio_base64
\* null; with tts=false no synthesis is attempted and audio_base64 is null; and once
\* the client is injected, an error response comes from a failed translation model
\* call and from nothing else.
C21_TranslateTtsIsOptional ==
    \A r \in Requests :
        TranslateRequest(r) =>
            /\ "tts" \in fault[r] =>
                  /\ local[r].tts
                  /\ response[r].status = 200
                  /\ response[r].body.translated_text = local[r].translated_text
                  /\ response[r].body.input_text = local[r].text
                  /\ response[r].body.audio_base64 = "None"
            /\ ~local[r].tts =>
                  /\ local[r].tts_calls = 0
                  /\ "tts" \notin fault[r]
                  /\ response[r].status = 200 => response[r].body.audio_base64 = "None"
            /\ (local[r].tts /\ response[r].status = 200) =>
                  /\ local[r].tts_calls = 1
                  /\ response[r].body.audio_base64 = "None" <=> "tts" \in fault[r]
            /\ local[r].llm_calls # <<>> =>
                  (response[r].status # 200 <=> TranslationCallFailed(r))
            /\ response[r].status # 200 =>
                  /\ local[r].tts_calls = 0
                  /\ response[r] = IF local[r].llm_calls = <<>>
                                   THEN LlmClientNotInitialized
                                   ELSE TranslationFailed

\* C21 witness: a translation with tts=true whose speech synthesis failed has been
\* answered with success, the translated text and no audio.
C21_Witness ==
    \E r \in Requests :
        /\ TranslateRequest(r)
        /\ local[r].tts
        /\ "tts" \in fault[r]
        /\ response[r].status = 200
        /\ response[r].body.translated_text # <<>>
        /\ response[r].body.audio_base64 = "None"


\* request r was answered by the check of the injected service and by nothing else
RejectedUninjected(r) ==
    /\ pc[r] = "done"
    /\ response[r] = IF request[r].kind = "translate"
                     THEN LlmClientNotInitialized
                     ELSE NotInitialized

\* request r has left no trace but its error response
NothingDoneFor(r) ==
    /\ fault[r] = {}
    /\ local[r].llm_calls = <<>>
    /\ local[r].backend_outcome = "none"
    /\ local[r].audio_base64 = "None"
    /\ request[r].kind = "translate" =>
          local[r].tts_calls = 0 /\ local[r].translated_text = <<>>
    /\ request[r].kind # "translate" => local[r] = NoLocal
    /\ TurnRecords(sessions, r) = {}
    /\ TurnRecords(messages, r) = {}
    /\ TurnRecords(memori_messages, r) = {}

\* a handler entered before the injection ends in the same stretch with the error of
\* the missing service, and writes nothing
RejectedAtEntry ==
    \A r \in Requests :
        (pc[r] = "idle" /\ pc'[r] # "idle" /\ memori_wrapper = "None") =>
            /\ pc'[r] = "done"
            /\ response'[r].status = 500
            /\ response'[r] = IF request'[r].kind = "translate"
                              THEN LlmClientNotInitialized
                              ELSE NotInitialized
            /\ storeVars' = storeVars
            /\ faults' = faults
            /\ fault'[r] = {}
            /\ loop' = {}

\* the last call of get_memori_wrapper: it raised exactly when no wrapper existed and
\* no client came with the call; otherwise it returned the module's wrapper, which is
\* the one that existed before the call if there was one
WrapperCallAnswered ==
    mw_call.count > 0 =>
        /\ mw_call.raised <=> (mw_call.before = NoWrapper /\ mw_call.llm_client = "None")
        /\ mw_call.raised => mw_instance = NoWrapper
        /\ ~mw_call.raised =>
              /\ mw_call.value # NoWrapper
              /\ mw_call.value = mw_instance
              /\ mw_call.before # NoWrapper => mw_call.value = mw_call.before

\* C30: a chat or translate request that arrives before the services are injected is
\* answered with a server error in its first stretch, before any other step: no
\* detected language or transcription is kept, no session is created, no retrieval,
\* model or speech call is made and no record is written.  And get_memori_wrapper,
\* once it has built a wrapper, returns that one wrapper on every later call, and
\* raises only when no wrapper exists yet and the call brings no client.
C30_RejectedBeforeInjection ==
    /\ [](\A r \in Requests : RejectedUninjected(r) => NothingDoneFor(r))
    /\ []WrapperCallAnswered
    /\ [][RejectedAtEntry]_vars
    /\ [][mw_instance # NoWrapper => mw_instance' = mw_instance]_vars

\* C30 witness: a chat request and a translate request were both turned away before
\* the injection, and a later call of get_memori_wrapper, without a client, returned
\* the wrapper an earlier call had built.
C30_Witness ==
    /\ memori_wrapper = "None"
    /\ \E r \in Requests : RejectedUninjected(r) /\ request[r].kind \in {"text", "audio"}
    /\ \E r \in Requests : RejectedUninjected(r) /\ request[r].kind = "translate"
    /\ mw_call.count = 2
    /\ mw_call.llm_client = "None"
    /\ mw_call.before # NoWrapper
    /\ mw_call.value = mw_call.before

=============================================================================
